---- MODULE Spec2Model ----
(***************************************************************************)
(* Verification model of the PDF-Master-pro conversion tools.              *)
(*                                                                         *)
(* The module holds one state machine per tool:                            *)
(*   SpecConvert  PowerPointToPDF.convertPowerPointToPDF (one run at a     *)
(*                time over the selected, already extracted file)          *)
(*   SpecUpload   PowerPointToPDF.handleFilesSelected (batch upload and    *)
(*                concurrent extraction)                                   *)
(*   SpecWord     WordToPDF.handleConvert (batch conversion)               *)
(*   SpecImages   PDF-to-images handleConvert / convertPdfToImages         *)
(*   SpecLayout   the page, canvas and element geometry of one element     *)
(*                (convertPowerPointToPDF, renderElementToPDF,             *)
(*                renderImageElement)                                      *)
(*   SpecWrap     the word-wrap fallback of renderTextElement              *)
(*   SpecLines    the line placement loop of renderTextElement             *)
(*   SpecShape    the graphics state handling of renderShapeElement        *)
(*   SpecRetry    PowerPointToPDF.retryFileProcessing                      *)
(*   SpecStyle    colour resolution: WordToPDF.processNode and the runs of *)
(*                extractFormattedText                                     *)
(*   SpecTable    the cell loop of renderTableElement                      *)
(*   SpecMerge    MergePDF (selection, removal, handleMerge)               *)
(*   SpecExcel    ExcelToPDF.processFiles (with selection and removal)     *)
(*   SpecPages    SplitPDF.parsePageRanges and splitByRange                *)
(*   SpecCompress the target size loop of CompressPDF.compressPDF          *)
(* Real-valued percentages are kept as integers (floor); lengths are exact *)
(* fractions.                                                              *)
(***************************************************************************)
EXTENDS Integers, Sequences, FiniteSets, TLC

\* ------------------------------------------------------------------ bounds
MaxRichSlides == 2      \* slides of a package whose slides vary in content
MaxSlides == 6          \* slides of a text-only package (more than a chunk)
MaxBatch == 2           \* files of one batch (Word, images, Excel, upload)
MaxPages == 2           \* pages of one PDF given to the image converter

\* --------------------------------------------------------- program constants
chunkSize == 5          \* slides rendered between two yields
CHUNK_SIZE == 5         \* files extracted concurrently per upload chunk

NoFile == 0             \* selectedFileId === null

\* ------------------------------------------------------------ small helpers
Min(a, b) == IF a <= b THEN a ELSE b


\* Array.prototype.sort with a numeric comparator (a.k - b.k): stable, so an
\* entry comes after exactly the entries with a smaller key and the earlier
\* entries with an equal key.
StableSort(s) ==
    LET before(i) == {j \in DOMAIN s : \/ s[j].k < s[i].k
                                       \/ (s[j].k = s[i].k /\ j < i)}
    IN  [p \in DOMAIN s |-> s[CHOOSE i \in DOMAIN s : Cardinality(before(i)) + 1 = p]]

\* ================================================================= inputs
\* A slide part of the package, reduced to what the extractors read:
\*   texts  number of <p:sp> text boxes with a position and non-blank text
\*   pics   number of <p:pic> pictures whose media file resolves
\*   shapes number of <p:sp> shapes with a position (extractShapeElements)
\*   tables number of <p:graphicFrame> tables with a position
\*   bg     the slide has a <p:bg> picture that resolves in the media map
\*   show   FALSE when the slide is hidden in the document (<p:sld show="0">)
\*   bad    the part holds one more <p:pic> whose r:embed value is not a valid
\*          regular expression source (such as "rId(2"): extracting it throws
XmlText   == [texts |-> 1, pics |-> 0, shapes |-> 0, tables |-> 0, bg |-> FALSE, show |-> TRUE,  bad |-> FALSE]
XmlPic    == [texts |-> 2, pics |-> 1, shapes |-> 1, tables |-> 1, bg |-> FALSE, show |-> TRUE,  bad |-> FALSE]
XmlBg     == [texts |-> 1, pics |-> 0, shapes |-> 0, tables |-> 0, bg |-> TRUE,  show |-> TRUE,  bad |-> FALSE]
XmlBad    == [texts |-> 1, pics |-> 0, shapes |-> 0, tables |-> 0, bg |-> FALSE, show |-> TRUE,  bad |-> TRUE]
XmlHidden == [texts |-> 1, pics |-> 0, shapes |-> 0, tables |-> 0, bg |-> FALSE, show |-> FALSE, bad |-> FALSE]
SlideXmls == {XmlText, XmlPic, XmlBg, XmlBad, XmlHidden}

\* The digits of N in 'ppt/slides/slideN.xml'.
FileNames == {<<1>>, <<2>>, <<1, 0>>}
DecimalName(n) == IF n < 10 THEN <<n>> ELSE <<n \div 10, n % 10>>

\* ppt/presentation.xml as the sequence of its element names.
PresentationXml(n) ==
    <<"p:sldMasterIdLst">>
    \o (IF n > 0 THEN <<"p:sldIdLst">> ELSE <<>>)
    \o [i \in 1..n |-> "p:sldId"]
    \o <<"p:sldSz">>

Injective(f) == \A i, j \in DOMAIN f : f[i] = f[j] => i = j

\* A File: its name's extension, whether PizZip can open it, and its parts.
Package(files) ==
    [ext |-> "pptx", zip |-> TRUE, files |-> files, presentation |-> PresentationXml(Len(files))]
NotAZip == [ext |-> "pptx", zip |-> FALSE, files |-> <<>>, presentation |-> <<>>]
TextFile == [ext |-> "txt", zip |-> FALSE, files |-> <<>>, presentation |-> <<>>]

\* Object.keys(zip.files) lists the slide parts in the archive's own order.
RichPackages ==
    UNION { { Package([i \in 1..n |-> [name |-> names[i], xml |-> xmls[i]]]) :
                 names \in {f \in [1..n -> FileNames] : Injective(f)},
                 xmls \in [1..n -> SlideXmls] } : n \in 0..MaxRichSlides }

\* Text-only packages listed as slide10, slide2, slide3, ...
LongPackages ==
    { Package([i \in 1..n |-> [name |-> DecimalName(IF i = 1 THEN 10 ELSE i),
                                xml |-> XmlText]]) : n \in (MaxRichSlides + 1)..MaxSlides }

Packages == RichPackages \cup LongPackages

\* ============================================================= extraction
\* parseInt(a.match(/slide(\d+)\.xml$/)[1])
RECURSIVE parseInt(_)
parseInt(digits) ==
    IF digits = <<>> THEN 0
    ELSE 10 * parseInt(SubSeq(digits, 1, Len(digits) - 1)) + digits[Len(digits)]

\* The order a comparator-less sort() would give: names compared as strings.
slideFileKeyLex(name) == IF Len(name) = 1 THEN 100 * name[1] ELSE 100 * name[1] + name[2] + 1

slideFileKey(name) == parseInt(name)

sortSlideFiles(files) ==
    LET keyed == [i \in DOMAIN files |-> [k |-> slideFileKey(files[i].name), v |-> files[i]]]
        sorted == StableSort(keyed)
    IN  [i \in DOMAIN sorted |-> sorted[i].v]

\* (presentationXml.match(/<p:sldId/g) || []).length : the pattern is a
\* prefix of both the <p:sldId> entries and the <p:sldIdLst> that holds them.
MatchesSldId(tag) == tag \in {"p:sldId", "p:sldIdLst"}

extractMetadata(pkg) ==
    [slideCount |-> Cardinality({i \in DOMAIN pkg.presentation : MatchesSldId(pkg.presentation[i])})]

extractTextElements(xml) ==
    [i \in 1..xml.texts |-> [id |-> <<"text", i - 1>>, type |-> "text", zIndex |-> i, src |-> FALSE]]

extractImageElements(xml) ==
    [i \in 1..xml.pics |-> [id |-> <<"image", i - 1>>, type |-> "image", zIndex |-> i, src |-> TRUE]]

extractShapeElements(xml) ==
    [i \in 1..xml.shapes |-> [id |-> <<"shape", i - 1>>, type |-> "shape", zIndex |-> i, src |-> FALSE]]

extractTableElements(xml) ==
    [i \in 1..xml.tables |-> [id |-> <<"table", i - 1>>, type |-> "table", zIndex |-> i, src |-> FALSE]]

\* The record parseSlideXml returns has no 'hidden' property: slide.hidden
\* reads undefined, which the filter treats as false.
parseSlideXml(file, slideNumber) ==
    [id |-> slideNumber, from |-> file.name, fallback |-> FALSE,
     backgroundImage |-> file.xml.bg,
     elements |-> extractTextElements(file.xml) \o extractImageElements(file.xml)
                 \o extractShapeElements(file.xml) \o extractTableElements(file.xml),
     hidden |-> FALSE]

fallbackSlide(file, slideNumber) ==
    [id |-> slideNumber, from |-> file.name, fallback |-> TRUE,
     backgroundImage |-> FALSE,
     elements |-> <<[id |-> <<"error-text", 0>>, type |-> "text", zIndex |-> 1, src |-> FALSE]>>,
     hidden |-> FALSE]

\* new RegExp(`<Relationship Id="${relId}"...`) throws a SyntaxError when relId
\* is not a valid pattern; extractImageElements has no try around it.
extractImageElementsThrows(xml) == xml.bad

\* parseSlideXml awaits the four extractors one after the other without a
\* try: what an extractor throws rejects the whole parseSlideXml call.
parseSlideXmlThrows(xml) == extractImageElementsThrows(xml)

extractSlides(pkg) ==
    LET slideFiles == sortSlideFiles(pkg.files)
    IN  [i \in DOMAIN slideFiles |->
            IF parseSlideXmlThrows(slideFiles[i].xml) THEN fallbackSlide(slideFiles[i], i)
            ELSE parseSlideXml(slideFiles[i], i)]

extractPresentationData(pkg) ==
    [slides |-> extractSlides(pkg), metadata |-> extractMetadata(pkg)]


\* ================================================================== state
VARIABLES
    \* PowerPointToPDF component state
    convertedFiles,       \* ConvertedFile[]
    selectedFileId,       \* string | null
    isConverting,
    conversionProgress,
    conversionSettings,
    \* one call of convertPowerPointToPDF: its closure and its locals
    pc,                   \* where the call is suspended
    presentationData,     \* the presentationData the closure captured
    runSelectedFileId,    \* the selectedFileId the closure captured
    runSettings,          \* the conversionSettings the closure captured
    slidesToProcess,
    slideIndex,
    sortedElements,
    elemIndex,
    pdf,                  \* pages of the jsPDF document being built
    lastRun,              \* what the latest call has done (download, alert)
    \* handleFilesSelected: the extraction promises of the batch
    tasks,
    \* WordToPDF
    word,
    \* PDF-to-images
    images,
    \* ExcelToPDF
    excel,
    \* one call of a layout, paint or parsing routine: its arguments, where
    \* it is, its locals and what it has drawn or returned
    paint,
    \* PowerPointToPDF: retryCount and the calls of retryFileProcessing
    retry,
    \* MergePDF
    merge

pptVars == <<convertedFiles, selectedFileId, isConverting, conversionProgress,
             conversionSettings, pc, presentationData, runSelectedFileId,
             runSettings, slidesToProcess, slideIndex, sortedElements,
             elemIndex, pdf, lastRun>>
runVars == <<pc, presentationData, runSelectedFileId, runSettings,
             slidesToProcess, slideIndex, sortedElements, elemIndex, pdf, lastRun>>
otherTools == <<word, images, excel, paint, retry, merge>>
otherApps == <<word, images, excel, retry, merge>>
vars == <<pptVars, tasks, word, images, excel, paint, retry, merge>>

Null == [slides |-> <<>>, metadata |-> [slideCount |-> 0], none |-> TRUE]
NoRun == [result |-> "none", slides |-> <<>>, pages |-> <<>>, source |-> Null]

newFile(id, pkg) ==
    [id |-> id, originalFile |-> pkg, status |-> "pending", error |-> "",
     slides |-> <<>>, metadata |-> [slideCount |-> 0], pdfBlob |-> FALSE]

idleRun ==
    /\ pc = "idle"
    /\ presentationData = Null
    /\ runSelectedFileId = NoFile
    /\ runSettings = [includeHiddenSlides |-> FALSE, includeImages |-> TRUE]
    /\ slidesToProcess = <<>>
    /\ slideIndex = 0
    /\ sortedElements = <<>>
    /\ elemIndex = 0
    /\ pdf = <<>>
    /\ lastRun = NoRun

NoTasks == [pc |-> "idle", valid |-> <<>>, start |-> 0, sel |-> NoFile, running |-> {}]
WordOff == [selectedFiles |-> <<>>, convertedFiles |-> <<>>, isProcessing |-> FALSE,
            toast |-> "", run |-> <<>>, i |-> 1, processedFiles |-> <<>>]
ImagesOff == [selectedFiles |-> <<>>, convertedFiles |-> <<>>, isConverting |-> FALSE,
              conversionProgress |-> 0, toast |-> "", run |-> <<>>, i |-> 1,
              pageNum |-> 1, newConvertedFiles |-> <<>>]
ExcelOff == [files |-> <<>>, isProcessing |-> FALSE, nextId |-> 1, run |-> <<>>, i |-> 0]
PaintOff == [pc |-> "off"]
RetryOff == [retryCount |-> 0, seen |-> [retryCount |-> 0, listed |-> FALSE], calls |-> 0,
             started |-> 0, running |-> {}, lastError |-> ""]
MergeOff == [selectedFiles |-> <<>>, isProcessing |-> FALSE, mergedPdfUrl |-> <<>>,
             run |-> <<>>, toast |-> "", lastMerge |-> "none"]

idleOthers ==
    /\ tasks = NoTasks
    /\ word = WordOff
    /\ images = ImagesOff
    /\ excel = ExcelOff
    /\ paint = PaintOff
    /\ retry = RetryOff
    /\ merge = MergeOff

\* useMemo: the selected file's slides and metadata, or null.
currentPresentationData ==
    IF \E i \in DOMAIN convertedFiles : convertedFiles[i].id = selectedFileId
    THEN LET i == CHOOSE i \in DOMAIN convertedFiles : convertedFiles[i].id = selectedFileId
         IN  [slides |-> convertedFiles[i].slides, metadata |-> convertedFiles[i].metadata,
              none |-> FALSE, originalFile |-> convertedFiles[i].originalFile]
    ELSE Null

\* prev.map(f => f.id === id ? {...f, ...patch} : f)
mapFile(files, id, patch) ==
    [i \in DOMAIN files |->
        IF files[i].id = id
        THEN [k \in DOMAIN files[i] |-> IF k \in DOMAIN patch THEN patch[k] ELSE files[i][k]]
        ELSE files[i]]

\* presentationData.slides.filter(slide => includeHiddenSlides || !slide.hidden)
RECURSIVE filterSlides(_, _)
filterSlides(slides, settings) ==
    IF slides = <<>> THEN <<>>
    ELSE (IF settings.includeHiddenSlides \/ ~Head(slides).hidden
          THEN <<Head(slides)>> ELSE <<>>) \o filterSlides(Tail(slides), settings)

\* prev.filter(file => file.id !== id)
RECURSIVE removeFile(_, _)
removeFile(files, id) ==
    IF files = <<>> THEN <<>>
    ELSE (IF Head(files).id # id THEN <<Head(files)>> ELSE <<>>) \o removeFile(Tail(files), id)

\* The elements left in extraction order (the sort forgotten).
sortElementsUnsorted(elements) == elements

\* [...slide.elements].sort((a, b) => (a.zIndex || 0) - (b.zIndex || 0))
sortElements(elements) ==
    LET keyed == [i \in DOMAIN elements |-> [k |-> elements[i].zIndex, v |-> elements[i]]]
        sorted == StableSort(keyed)
    IN  [i \in DOMAIN sorted |-> sorted[i].v]


\* ===================================================== convertPowerPointToPDF
\* new jsPDF(...) starts with one page; slide 0 is drawn on it.
BlankPage == [slide |-> 0, ops |-> <<>>, err |-> FALSE]

withOp(p, op) == [p EXCEPT ![Len(p)].ops = Append(@, op)]

\* const progress = (slideIndex / totalSlides) * 85
slideProgress(index, total) == (index * 85) \div total

\* The chunk loop awaits a 10 ms timer after every chunk, the last one too.
nextPc(done, total) == IF done % chunkSize = 0 \/ done = total THEN "yield" ELSE "slide"

\* catch (slideError): the error page is painted over the slide's page and
\* the loop goes on. The mutant lets the error reach the outer catch.
onSlideErrorRethrow(p) == [pdf |-> p, rethrow |-> TRUE]

onSlideError(p) == [pdf |-> [p EXCEPT ![Len(p)].err = TRUE], rethrow |-> FALSE]

\* How a settled image load ends inside renderImageElement:
\*   "ok"          loaded, addImage succeeded in the detected format
\*   "jpegOk"      loaded, addImage failed, the JPEG retry succeeded
\*   "unsupported" loaded, both addImage calls failed
\*   "badDims"     loaded with width or height 0
\*   "error"       img.onerror          "timeout"  the 10 s timer fired
ImageEvents == {"ok", "jpegOk", "unsupported", "badDims", "error"}

renderImageElementRethrow(src, result) ==
    IF ~src THEN [op |-> "placeholder", thrown |-> FALSE]
    ELSE IF result \in {"ok", "jpegOk"} THEN [op |-> "image", thrown |-> FALSE]
    ELSE IF result = "unsupported" THEN [op |-> "placeholder", thrown |-> FALSE]
    ELSE [op |-> "none", thrown |-> TRUE]

renderImageElement(src, result) ==
    IF ~src THEN [op |-> "placeholder", thrown |-> FALSE]
    ELSE IF result \in {"ok", "jpegOk"} THEN [op |-> "image", thrown |-> FALSE]
    ELSE [op |-> "placeholder", thrown |-> FALSE]

finishedRun(result, pages) ==
    [result |-> result, slides |-> slidesToProcess, pages |-> pages, source |-> presentationData]

\* finally { setIsConverting(false); setConversionProgress(0) }
finally ==
    /\ isConverting' = FALSE
    /\ conversionProgress' = 0
    /\ pc' = "idle"
    /\ slideIndex' = 0
    /\ sortedElements' = <<>>
    /\ elemIndex' = 0
    /\ pdf' = <<>>

\* The outer catch: the selected file is marked 'error', the user is alerted.
outerCatch ==
    /\ convertedFiles' = mapFile(convertedFiles, runSelectedFileId,
                                 [status |-> "error", error |-> "conversion"])
    /\ lastRun' = finishedRun("error", <<>>)
    /\ finally
    /\ UNCHANGED <<selectedFileId, conversionSettings, presentationData,
                   runSelectedFileId, runSettings, slidesToProcess>>

\* The slide's page is complete (rendered or replaced by the error page).
slideDone(p) ==
    /\ pdf' = p
    /\ slideIndex' = slideIndex + 1
    /\ pc' = nextPc(slideIndex + 1, Len(slidesToProcess))
    /\ sortedElements' = <<>>
    /\ elemIndex' = 0
    /\ UNCHANGED <<convertedFiles, selectedFileId, isConverting, conversionProgress,
                   conversionSettings, presentationData, runSelectedFileId,
                   runSettings, slidesToProcess, lastRun>>

slideFailed ==
    LET r == onSlideError(pdf)
    IN  IF r.rethrow THEN outerCatch ELSE slideDone(r.pdf)

\* Click on 'Convert to PDF' with nothing to convert: the guard throws, the
\* outer catch and the finally block run before the call first suspends.
convertRejected ==
    /\ pc = "idle" /\ ~isConverting
    /\ currentPresentationData.none \/ Len(currentPresentationData.slides) = 0
    /\ convertedFiles' = mapFile(convertedFiles, selectedFileId,
                                 [status |-> "error", error |-> "no data"])
    /\ lastRun' = [result |-> "error", slides |-> <<>>, pages |-> <<>>,
                   source |-> currentPresentationData]
    /\ isConverting' = FALSE
    /\ conversionProgress' = 0
    /\ UNCHANGED <<selectedFileId, conversionSettings, pc, presentationData,
                   runSelectedFileId, runSettings, slidesToProcess, slideIndex,
                   sortedElements, elemIndex, pdf>>

convertStart ==
    /\ pc = "idle" /\ ~isConverting
    /\ ~currentPresentationData.none /\ Len(currentPresentationData.slides) > 0
    /\ isConverting' = TRUE
    /\ conversionProgress' = 0
    /\ presentationData' = currentPresentationData
    /\ runSelectedFileId' = selectedFileId
    /\ runSettings' = conversionSettings
    /\ slidesToProcess' = filterSlides(currentPresentationData.slides, conversionSettings)
    /\ slideIndex' = 0
    /\ sortedElements' = <<>>
    /\ elemIndex' = 0
    /\ pdf' = <<BlankPage>>
    /\ pc' = "slide"
    /\ lastRun' = NoRun
    /\ UNCHANGED <<convertedFiles, selectedFileId, conversionSettings>>

\* Top of the slide loop up to the first suspension of renderSlideToPDF.
beginSlide ==
    /\ pc = "slide" /\ slideIndex < Len(slidesToProcess)
    /\ LET slide == slidesToProcess[slideIndex + 1]
           page == [slide |-> slide.id, ops |-> <<>>, err |-> FALSE]
       IN  /\ conversionProgress' = slideProgress(slideIndex, Len(slidesToProcess))
           /\ pdf' = IF slideIndex > 0 THEN Append(pdf, page) ELSE <<page>>
           /\ sortedElements' = sortElements(slide.elements)
           /\ elemIndex' = 0
           /\ pc' = IF slide.backgroundImage /\ runSettings.includeImages
                    THEN "bgLoad" ELSE "elem"
    /\ UNCHANGED <<convertedFiles, selectedFileId, isConverting, conversionSettings,
                   presentationData, runSelectedFileId, runSettings, slidesToProcess,
                   slideIndex, lastRun>>

\* The background image settles (img.onload or img.onerror); no timer is
\* armed for this load. A failure is caught and logged inside the slide.
backgroundSettled ==
    /\ pc = "bgLoad"
    /\ \E loaded \in BOOLEAN :
          pdf' = IF loaded THEN withOp(pdf, <<(<<"background", 0>>), "image">>) ELSE pdf
    /\ pc' = "elem"
    /\ UNCHANGED <<convertedFiles, selectedFileId, isConverting, conversionProgress,
                   conversionSettings, presentationData, runSelectedFileId, runSettings,
                   slidesToProcess, slideIndex, sortedElements, elemIndex, lastRun>>

elementDone(p) ==
    /\ pdf' = p
    /\ elemIndex' = elemIndex + 1
    /\ pc' = "elem"
    /\ UNCHANGED <<convertedFiles, selectedFileId, isConverting, conversionProgress,
                   conversionSettings, presentationData, runSelectedFileId, runSettings,
                   slidesToProcess, slideIndex, sortedElements, lastRun>>

currentElement == sortedElements[elemIndex + 1]

\* renderElementToPDF for a text element: any jsPDF call in it may throw,
\* which leaves renderSlideToPDF for the slide-level catch.
renderTextElement ==
    /\ pc = "elem" /\ elemIndex < Len(sortedElements)
    /\ currentElement.type = "text"
    /\ \E throws \in BOOLEAN :
          IF throws THEN slideFailed
          ELSE elementDone(withOp(pdf, <<currentElement.id, "text">>))

imageSettled(result) ==
    LET r == renderImageElement(currentElement.src, result)
    IN  IF r.thrown THEN slideFailed
        ELSE elementDone(withOp(pdf, <<currentElement.id, r.op>>))

\* renderElementToPDF for a shape: a failing draw call is caught and the
\* plain rectangle drawn instead; if that call throws too the error leaves
\* renderSlideToPDF.
renderShapeElement ==
    /\ pc = "elem" /\ elemIndex < Len(sortedElements)
    /\ currentElement.type = "shape"
    /\ \E throws \in BOOLEAN :
          IF throws THEN slideFailed
          ELSE elementDone(withOp(pdf, <<currentElement.id, "shape">>))

\* renderElementToPDF for a table: no try inside renderTableElement.
renderTableElement ==
    /\ pc = "elem" /\ elemIndex < Len(sortedElements)
    /\ currentElement.type = "table"
    /\ \E throws \in BOOLEAN :
          IF throws THEN slideFailed
          ELSE elementDone(withOp(pdf, <<currentElement.id, "table">>))

\* renderElementToPDF for an image element, up to loadImageWithTimeout.
renderImageStart ==
    /\ pc = "elem" /\ elemIndex < Len(sortedElements)
    /\ currentElement.type = "image"
    /\ IF ~runSettings.includeImages THEN elementDone(pdf)
       ELSE IF ~currentElement.src THEN imageSettled("error")
       ELSE /\ pc' = "imgLoad"
            /\ UNCHANGED <<convertedFiles, selectedFileId, isConverting,
                           conversionProgress, conversionSettings, presentationData,
                           runSelectedFileId, runSettings, slidesToProcess, slideIndex,
                           sortedElements, elemIndex, pdf, lastRun>>

\* img.onload / img.onerror of loadImageWithTimeout, then the rest of
\* renderImageElement.
imageEvent ==
    /\ pc = "imgLoad"
    /\ \E result \in ImageEvents : imageSettled(result)

\* The setTimeout of loadImageWithTimeout fires first.
imageTimeout ==
    /\ pc = "imgLoad"
    /\ imageSettled("timeout")

\* All elements of the slide are painted (the watermark cannot throw).
endSlide ==
    /\ pc = "elem" /\ elemIndex = Len(sortedElements)
    /\ slideDone(pdf)

\* await new Promise(resolve => setTimeout(resolve, 10)) with slides left.
chunkYield ==
    /\ pc = "yield" /\ slideIndex < Len(slidesToProcess)
    /\ pc' = "slide"
    /\ UNCHANGED <<convertedFiles, selectedFileId, isConverting, conversionProgress,
                   conversionSettings, presentationData, runSelectedFileId, runSettings,
                   slidesToProcess, slideIndex, sortedElements, elemIndex, pdf, lastRun>>

\* After the last chunk: progress 95, the blob, progress 100, the download,
\* the file marked 'completed', then the finally block.
finishRun ==
    /\ \/ pc = "yield" /\ slideIndex = Len(slidesToProcess)
       \/ pc = "slide" /\ Len(slidesToProcess) = 0
    /\ convertedFiles' = mapFile(convertedFiles, runSelectedFileId,
                                 [status |-> "completed", pdfBlob |-> TRUE])
    /\ lastRun' = finishedRun("completed", pdf)
    /\ finally
    /\ UNCHANGED <<selectedFileId, conversionSettings, presentationData,
                   runSelectedFileId, runSettings, slidesToProcess>>

\* The 'Include Images' checkbox.
handleSettingsChange ==
    /\ conversionSettings' = [conversionSettings EXCEPT !.includeImages = ~@]
    /\ UNCHANGED <<convertedFiles, selectedFileId, isConverting, conversionProgress, runVars>>

handleRemoveFile ==
    /\ \E i \in DOMAIN convertedFiles :
          convertedFiles' = removeFile(convertedFiles, convertedFiles[i].id)
    /\ UNCHANGED <<selectedFileId, isConverting, conversionProgress, conversionSettings, runVars>>

defaultSettings == [includeHiddenSlides |-> FALSE, includeImages |-> TRUE]

\* One uploaded file whose extraction has finished.
InitConvert ==
    /\ \E pkg \in Packages :
          LET d == extractPresentationData(pkg)
          IN  /\ convertedFiles = <<[newFile(1, pkg) EXCEPT !.slides = d.slides,
                                                             !.metadata = d.metadata]>>
              /\ selectedFileId = IF Len(d.slides) > 0 THEN 1 ELSE NoFile
    /\ isConverting = FALSE
    /\ conversionProgress = 0
    /\ conversionSettings = defaultSettings
    /\ idleRun
    /\ idleOthers

NextConvert ==
    \/ (convertRejected /\ UNCHANGED <<tasks, otherTools>>)
    \/ (convertStart /\ UNCHANGED <<tasks, otherTools>>)
    \/ (beginSlide /\ UNCHANGED <<tasks, otherTools>>)
    \/ (backgroundSettled /\ UNCHANGED <<tasks, otherTools>>)
    \/ (renderTextElement /\ UNCHANGED <<tasks, otherTools>>)
    \/ (renderShapeElement /\ UNCHANGED <<tasks, otherTools>>)
    \/ (renderTableElement /\ UNCHANGED <<tasks, otherTools>>)
    \/ (renderImageStart /\ UNCHANGED <<tasks, otherTools>>)
    \/ (imageEvent /\ UNCHANGED <<tasks, otherTools>>)
    \/ (imageTimeout /\ UNCHANGED <<tasks, otherTools>>)
    \/ (endSlide /\ UNCHANGED <<tasks, otherTools>>)
    \/ (chunkYield /\ UNCHANGED <<tasks, otherTools>>)
    \/ (finishRun /\ UNCHANGED <<tasks, otherTools>>)
    \/ (handleSettingsChange /\ UNCHANGED <<tasks, otherTools>>)
    \/ (handleRemoveFile /\ UNCHANGED <<tasks, otherTools>>)

SpecConvert == InitConvert /\ [][NextConvert]_vars


\* Runs in which every internal step of the conversion is eventually taken
\* (the event loop runs timers and continuations); whether an image ever
\* fires onload or onerror is up to the environment.
runStep ==
    \/ beginSlide \/ renderTextElement \/ renderShapeElement \/ renderTableElement
    \/ renderImageStart \/ imageTimeout
    \/ endSlide \/ chunkYield \/ finishRun

FairSpecConvert ==
    InitConvert /\ [][NextConvert]_vars /\ WF_vars(runStep /\ UNCHANGED <<tasks, otherTools>>)

\* ================================================== properties: conversion
opsOf(page) == {page.ops[i] : i \in DOMAIN page.ops}

\* C1: whatever slides fail to render, a started run ends 'completed' with
\* exactly one page per slide of slidesToProcess, in slide order; a slide
\* that failed has the error page, every other slide has its text painted.
C1_OnePagePerSlideDespiteErrors ==
    /\ lastRun.result = "error" => lastRun.slides = <<>>
    /\ lastRun.result = "completed" =>
         /\ Len(lastRun.pages) = Len(lastRun.slides)
         /\ \A k \in DOMAIN lastRun.pages :
               /\ lastRun.pages[k].slide = lastRun.slides[k].id
               /\ ~lastRun.pages[k].err =>
                     \A e \in DOMAIN lastRun.slides[k].elements :
                        LET el == lastRun.slides[k].elements[e]
                        IN  el.type = "text" => <<el.id, "text">> \in opsOf(lastRun.pages[k])
         /\ \A i \in DOMAIN convertedFiles :
               convertedFiles[i].id = runSelectedFileId => convertedFiles[i].status = "completed"

C1_Witness ==
    /\ lastRun.result = "completed"
    /\ \E j, k \in DOMAIN lastRun.pages :
          /\ j < k
          /\ lastRun.pages[j].err
          /\ ~lastRun.pages[k].err
          /\ lastRun.pages[k].ops # <<>>
    /\ \E i \in DOMAIN convertedFiles : convertedFiles[i].status = "completed"

\* Where an element stands in its slide's extraction order (text boxes, then
\* pictures, then shapes, then tables, each in document order).
extractionIndex(slide, id) == CHOOSE e \in DOMAIN slide.elements : slide.elements[e].id = id

elementOps(page) == SelectSeq(page.ops, LAMBDA op : op[1][1] # "background")

\* C14: on every page being built, the elements painted so far were painted
\* in ascending zIndex, and elements of equal zIndex in extraction order.
C14_PaintedInZOrder ==
    (pc \in {"elem", "imgLoad"} /\ slideIndex < Len(slidesToProcess)) =>
        LET slide == slidesToProcess[slideIndex + 1]
            ops == elementOps(pdf[Len(pdf)])
        IN  \A i, j \in DOMAIN ops :
                i < j =>
                    LET a == extractionIndex(slide, ops[i][1])
                        b == extractionIndex(slide, ops[j][1])
                    IN  \/ slide.elements[a].zIndex < slide.elements[b].zIndex
                        \/ /\ slide.elements[a].zIndex = slide.elements[b].zIndex
                           /\ a < b

\* A page on which a text box, a picture, a shape and a table of equal
\* zIndex and a later text box of higher zIndex have all been painted.
C14_Witness ==
    /\ pc = "elem" /\ slideIndex < Len(slidesToProcess)
    /\ LET ops == elementOps(pdf[Len(pdf)])
       IN  /\ Len(ops) = 5
           /\ ops[1][1] = <<"text", 0>>
           /\ ops[2][1] = <<"image", 0>>
           /\ ops[3][1] = <<"shape", 0>>
           /\ ops[4][1] = <<"table", 0>>
           /\ ops[5][1] = <<"text", 1>>

\* C5: a started conversion run always eventually finishes.
C5_RunEventuallyFinishes == isConverting ~> ~isConverting

ascendingFiles(slides) ==
    \A i, j \in DOMAIN slides : i < j => parseInt(slides[i].from) < parseInt(slides[j].from)

C8_PagesInSlideOrder ==
    /\ \A f \in DOMAIN convertedFiles : ascendingFiles(convertedFiles[f].slides)
    /\ lastRun.result = "completed" =>
         /\ ascendingFiles(lastRun.slides)
         /\ Len(lastRun.pages) = Len(lastRun.slides)
         /\ \A k \in DOMAIN lastRun.pages : lastRun.pages[k].slide = lastRun.slides[k].id
         /\ \A k \in DOMAIN lastRun.slides : lastRun.slides[k].id = k

C8_Witness ==
    /\ lastRun.result = "completed"
    /\ Len(lastRun.pages) > chunkSize
    /\ lastRun.source.originalFile.files[1].name = <<1, 0>>
    /\ lastRun.slides[Len(lastRun.slides)].from = <<1, 0>>
    /\ lastRun.pages[Len(lastRun.pages)].slide = Len(lastRun.slides)

\* Slides of the document that are not hidden (show is not "0").
shownFiles(pkg) == {i \in DOMAIN pkg.files : pkg.files[i].xml.show}

\* C9: with includeHiddenSlides unset the output has exactly one page per
\* slide that is not hidden, and no page of a hidden slide; with it set,
\* one page per slide.
C9_HiddenSlidesNotRendered ==
    lastRun.result = "completed" =>
        LET doc == lastRun.source.originalFile
        IN  IF runSettings.includeHiddenSlides
            THEN Len(lastRun.pages) = Len(doc.files)
            ELSE /\ Len(lastRun.pages) = Cardinality(shownFiles(doc))
                 /\ \A k \in DOMAIN lastRun.slides :
                       \A i \in DOMAIN doc.files :
                          doc.files[i].name = lastRun.slides[k].from => doc.files[i].xml.show

\* C10: a run that can produce no page (no slide extracted, or every slide
\* hidden and hidden slides not requested) ends in error, emits no PDF and
\* leaves no file 'completed'.
noPagePossible(data, settings) ==
    \/ data.none
    \/ data.slides = <<>>
    \/ ~settings.includeHiddenSlides /\ shownFiles(data.originalFile) = {}

C10_NoPageIsTerminalFailure ==
    (lastRun.result # "none" /\ noPagePossible(lastRun.source, conversionSettings)) =>
        /\ lastRun.result = "error"
        /\ lastRun.pages = <<>>
        /\ \A i \in DOMAIN convertedFiles : convertedFiles[i].status # "completed"

\* C13: an element whose extraction throws is skipped on its own: the slide
\* record of that part is not the whole-slide placeholder and still holds
\* the part's other elements (its text boxes and its resolvable pictures).
C13_BadElementSkippedAlone ==
    \A f \in DOMAIN convertedFiles :
        \A k \in DOMAIN convertedFiles[f].slides :
            \A i \in DOMAIN convertedFiles[f].originalFile.files :
                LET slide == convertedFiles[f].slides[k]
                    part == convertedFiles[f].originalFile.files[i]
                IN  (part.name = slide.from /\ part.xml.bad) =>
                        /\ ~slide.fallback
                        /\ Len(slide.elements) = part.xml.texts + part.xml.pics
                                                 + part.xml.shapes + part.xml.tables


\* ====================================================== handleFilesSelected
\* The packages offered to the upload: no slide; one slide; slide10 and a
\* slide2 that cannot be parsed; not a zip archive; not a presentation.
UploadFiles ==
    { Package(<<>>),
      Package(<<[name |-> <<1>>, xml |-> XmlText]>>),
      Package(<<[name |-> <<1, 0>>, xml |-> XmlText], [name |-> <<2>>, xml |-> XmlBad]>>),
      NotAZip,
      TextFile }

\* One batch per session: up to MaxBatch arbitrary files, or one more than
\* a chunk of one-slide presentations.
Batches ==
    UNION { [1..n -> UploadFiles] : n \in 0..MaxBatch }
    \cup { [i \in 1..(CHUNK_SIZE + 1) |-> Package(<<[name |-> <<1>>, xml |-> XmlText]>>)] }

\* validateFile (the 100 MB size limit is not modelled).
validateFile(file) == file.ext \in {"pptx", "ppt"}

RECURSIVE validFilesOf(_)
validFilesOf(files) ==
    IF files = <<>> THEN <<>>
    ELSE (IF validateFile(Head(files)) THEN <<Head(files)>> ELSE <<>>) \o validFilesOf(Tail(files))

\* processFileChunk up to the first await of each promise: every file of
\* the chunk is added to the list and its extraction is started.
startChunk(valid, start, sel) ==
    LET end == Min(start + CHUNK_SIZE, Len(valid))
    IN  /\ convertedFiles' = convertedFiles \o [i \in 1..(end - start) |-> newFile(start + i, valid[start + i])]
        /\ tasks' = [tasks EXCEPT !.pc = "chunk", !.valid = valid, !.start = start, !.sel = sel,
                                  !.running = {[id |-> start + i, file |-> valid[start + i],
                                                phase |-> "reading"] : i \in 1..(end - start)}]

uploadFiles ==
    /\ tasks.pc = "idle" /\ convertedFiles = <<>>
    /\ \E files \in Batches :
          LET valid == validFilesOf(files)
          IN  IF valid = <<>>
              THEN UNCHANGED <<convertedFiles, tasks>>
              ELSE startChunk(valid, 0, selectedFileId)
    /\ UNCHANGED <<selectedFileId, isConverting, conversionProgress, conversionSettings, runVars>>

\* file.arrayBuffer() resolves and new PizZip(...) opens the archive, or
\* throws, which the promise's catch records on the file.
readDone ==
    /\ \E t \in tasks.running :
          /\ t.phase = "reading"
          /\ IF t.file.zip
             THEN /\ tasks' = [tasks EXCEPT !.running = (@ \ {t}) \cup {[t EXCEPT !.phase = "parsing"]}]
                  /\ UNCHANGED convertedFiles
             ELSE /\ tasks' = [tasks EXCEPT !.running = @ \ {t}]
                  /\ convertedFiles' = mapFile(convertedFiles, t.id,
                                               [status |-> "error", error |-> "parsing"])
    /\ UNCHANGED <<selectedFileId, isConverting, conversionProgress, conversionSettings, runVars>>

\* The rest of extractPresentationData and of the promise body.
extractDone ==
    /\ \E t \in tasks.running :
          /\ t.phase = "parsing"
          /\ LET d == extractPresentationData(t.file)
             IN  /\ convertedFiles' = mapFile(convertedFiles, t.id,
                                              [slides |-> d.slides, metadata |-> d.metadata, status |-> "pending"])
                 /\ selectedFileId' = IF Len(d.slides) > 0 /\ tasks.sel = NoFile
                                      THEN t.id ELSE selectedFileId
          /\ tasks' = [tasks EXCEPT !.running = @ \ {t}]
    /\ UNCHANGED <<isConverting, conversionProgress, conversionSettings, runVars>>

\* Promise.allSettled of the chunk, the 100 ms delay, the next chunk.
nextChunk ==
    /\ tasks.pc = "chunk" /\ tasks.running = {}
    /\ tasks.start + CHUNK_SIZE < Len(tasks.valid)
    /\ startChunk(tasks.valid, tasks.start + CHUNK_SIZE, tasks.sel)
    /\ UNCHANGED <<selectedFileId, isConverting, conversionProgress, conversionSettings, runVars>>

batchDone ==
    /\ tasks.pc = "chunk" /\ tasks.running = {}
    /\ tasks.start + CHUNK_SIZE >= Len(tasks.valid)
    /\ tasks' = [tasks EXCEPT !.pc = "done"]
    /\ UNCHANGED <<convertedFiles, selectedFileId, isConverting, conversionProgress,
                   conversionSettings, runVars>>

InitUpload ==
    /\ convertedFiles = <<>>
    /\ selectedFileId = NoFile
    /\ isConverting = FALSE
    /\ conversionProgress = 0
    /\ conversionSettings = defaultSettings
    /\ idleRun
    /\ idleOthers

NextUpload ==
    \/ (uploadFiles /\ UNCHANGED otherTools)
    \/ (readDone /\ UNCHANGED otherTools)
    \/ (extractDone /\ UNCHANGED otherTools)
    \/ (nextChunk /\ UNCHANGED otherTools)
    \/ (batchDone /\ UNCHANGED otherTools)
    \/ (handleRemoveFile /\ UNCHANGED <<tasks, otherTools>>)

SpecUpload == InitUpload /\ [][NextUpload]_vars

\* ====================================================== properties: upload
extracted(f) == f.status = "pending" /\ \A t \in tasks.running : t.id # f.id

\* C2: after extraction the number of slide records equals
\* metadata.slideCount; a slide that cannot be parsed is one placeholder
\* slide at its own position, none is dropped or duplicated.
C2_SlideCountMatchesMetadata ==
    \A i \in DOMAIN convertedFiles :
        LET f == convertedFiles[i]
            parts == sortSlideFiles(f.originalFile.files)
        IN  extracted(f) =>
               /\ Len(f.slides) = f.metadata.slideCount
               /\ Len(f.slides) = Len(parts)
               /\ \A k \in DOMAIN f.slides :
                     /\ f.slides[k].from = parts[k].name
                     /\ f.slides[k].fallback = parts[k].xml.bad
                     /\ f.slides[k].fallback => Len(f.slides[k].elements) = 1

\* C4: the documents of a batch are processed one at a time.
C4_OneDocumentAtATime == Cardinality(tasks.running) <= 1

\* The files of the batch whose extraction yields at least one slide.
withSlides ==
    {i \in DOMAIN tasks.valid :
        tasks.valid[i].zip /\ Len(extractPresentationData(tasks.valid[i]).slides) > 0}

\* C25: after a batch uploaded with no file selected, selectedFileId is the
\* first-submitted file that yielded slides, and once set it is not
\* overwritten by another file of the batch.
C25_FirstFileWithSlidesSelected ==
    /\ [](tasks.pc = "done" /\ tasks.sel = NoFile /\ withSlides # {} =>
             /\ selectedFileId \in withSlides
             /\ \A i \in withSlides : selectedFileId <= i)
    /\ [][selectedFileId # NoFile => selectedFileId' = selectedFileId]_vars


\* ===================================================== retryFileProcessing
maxRetries == 3         \* if (currentRetries >= 3)
MaxRetryCalls == 5      \* calls of retryFileProcessing in one session

\* The list after a one-file upload has settled: a file whose extraction
\* failed, or a presentation of one slide.
RetryFiles ==
    { [newFile(1, NotAZip) EXCEPT !.status = "error", !.error = "parsing"] }
    \cup { LET pkg == Package(<<[name |-> <<1>>, xml |-> XmlText]>>)
               d == extractPresentationData(pkg)
           IN  [newFile(1, pkg) EXCEPT !.slides = d.slides, !.metadata = d.metadata] }

InitRetry ==
    /\ \E f \in RetryFiles :
          /\ convertedFiles = <<f>>
          /\ selectedFileId = IF Len(f.slides) > 0 THEN 1 ELSE NoFile
    /\ isConverting = FALSE
    /\ conversionProgress = 0
    /\ conversionSettings = defaultSettings
    /\ idleRun
    /\ tasks = NoTasks /\ word = WordOff /\ images = ImagesOff /\ excel = ExcelOff
    /\ paint = PaintOff /\ merge = MergeOff
    /\ retry = [RetryOff EXCEPT !.seen.listed = TRUE]

\* convertedFiles.find(f => f.id === fileId) on the current list
listedNow == \E i \in DOMAIN convertedFiles : convertedFiles[i].id = 1

\* A render: useCallback([convertedFiles, retryCount]) makes a new
\* retryFileProcessing that sees the current list and the current counts.
retryRender ==
    /\ retry.seen # [retryCount |-> retry.retryCount, listed |-> listedNow]
    /\ retry' = [retry EXCEPT !.seen = [retryCount |-> retry.retryCount, listed |-> listedNow]]
    /\ UNCHANGED pptVars

\* if (currentRetries >= 3) { setLastError(...); return; }
retryRefused(currentRetries) == currentRetries >= maxRetries

\* retryFileProcessing(fileId) of the latest render, up to its await.
retryCall ==
    /\ retry.calls < MaxRetryCalls
    /\ LET currentRetries == retry.seen.retryCount
       IN  IF ~retry.seen.listed
           THEN /\ retry' = [retry EXCEPT !.calls = @ + 1]
                /\ UNCHANGED convertedFiles
           ELSE IF retryRefused(currentRetries)
           THEN /\ retry' = [retry EXCEPT !.calls = @ + 1,
                                          !.lastError = "Maximum retry attempts reached"]
                /\ UNCHANGED convertedFiles
           ELSE /\ retry' = [retry EXCEPT
                      !.calls = @ + 1,
                      !.retryCount = currentRetries + 1,
                      !.started = @ + 1,
                      !.running = @ \cup {[call |-> retry.calls + 1, n |-> currentRetries + 1]}]
                /\ convertedFiles' = mapFile(convertedFiles, 1,
                                             [status |-> "pending", error |-> ""])
    /\ UNCHANGED <<selectedFileId, isConverting, conversionProgress, conversionSettings, runVars>>

\* extractPresentationData(file.originalFile) of one retry settles.
retrySettled ==
    /\ \E t \in retry.running :
          /\ retry' = [retry EXCEPT !.running = @ \ {t}]
          /\ \E f \in RetryFiles :
                /\ \A i \in DOMAIN convertedFiles : convertedFiles[i].originalFile = f.originalFile
                /\ convertedFiles' =
                      IF f.originalFile.zip
                      THEN LET d == extractPresentationData(f.originalFile)
                           IN  mapFile(convertedFiles, 1,
                                       [slides |-> d.slides, metadata |-> d.metadata,
                                        status |-> "pending"])
                      ELSE mapFile(convertedFiles, 1, [status |-> "error", error |-> "retry failed"])
    /\ UNCHANGED <<selectedFileId, isConverting, conversionProgress, conversionSettings, runVars>>

NextRetry ==
    \/ (retryRender /\ UNCHANGED <<tasks, word, images, excel, paint, merge>>)
    \/ (retryCall /\ UNCHANGED <<tasks, word, images, excel, paint, merge>>)
    \/ (retrySettled /\ UNCHANGED <<tasks, word, images, excel, paint, merge>>)
    \/ (handleRemoveFile /\ UNCHANGED <<tasks, otherTools>>)

SpecRetry == InitRetry /\ [][NextRetry]_vars

WordKinds == {"good", "bad", "other"}
WordBatches == UNION { [1..n -> [id : {0}, kind : WordKinds]] : n \in 0..MaxBatch }

numbered(files) == [i \in DOMAIN files |-> [files[i] EXCEPT !.id = i]]

RECURSIVE wordFilesOf(_)
wordFilesOf(files) ==
    IF files = <<>> THEN <<>>
    ELSE (IF Head(files).kind # "other" THEN <<Head(files)>> ELSE <<>>) \o wordFilesOf(Tail(files))

\* prev.filter((_, i) => i !== index)
removeAt(s, index) == SubSeq(s, 1, index - 1) \o SubSeq(s, index + 1, Len(s))

wordFilesSelected ==
    /\ \E files \in WordBatches :
          word' = [word EXCEPT !.selectedFiles = wordFilesOf(numbered(files)),
                               !.convertedFiles = <<>>,
                               !.toast = IF Len(wordFilesOf(files)) # Len(files)
                                         THEN "Invalid files" ELSE @]

wordRemoveFile ==
    /\ \E index \in DOMAIN word.selectedFiles :
          word' = [word EXCEPT !.selectedFiles = removeAt(@, index)]

\* handleConvert with nothing selected.
wordConvertNothing ==
    /\ ~word.isProcessing /\ word.selectedFiles = <<>>
    /\ word' = [word EXCEPT !.toast = "No files selected"]

\* handleConvert up to the first await convertWordToPdf(file).
wordConvertStart ==
    /\ ~word.isProcessing /\ word.selectedFiles # <<>>
    /\ word' = [word EXCEPT !.isProcessing = TRUE, !.run = word.selectedFiles,
                            !.i = 1, !.processedFiles = <<>>]

\* One convertWordToPdf(file) settles. A rejection leaves the for loop for
\* the catch around the whole batch; after the last file the results are
\* published. The finally block clears isProcessing in both cases.
wordFileSettled ==
    /\ word.isProcessing
    /\ LET file == word.run[word.i]
           processed == Append(word.processedFiles, [src |-> file.id])
       IN  IF file.kind = "bad"
           THEN word' = [word EXCEPT !.toast = "Conversion failed", !.isProcessing = FALSE]
           ELSE IF word.i < Len(word.run)
                THEN word' = [word EXCEPT !.processedFiles = processed, !.i = @ + 1]
                ELSE word' = [word EXCEPT !.processedFiles = processed,
                                          !.convertedFiles = processed,
                                          !.toast = "Success!", !.isProcessing = FALSE]

NextWord ==
    \/ (wordFilesSelected /\ UNCHANGED <<pptVars, tasks, images, excel, paint, retry, merge>>)
    \/ (wordRemoveFile /\ UNCHANGED <<pptVars, tasks, images, excel, paint, retry, merge>>)
    \/ (wordConvertNothing /\ UNCHANGED <<pptVars, tasks, images, excel, paint, retry, merge>>)
    \/ (wordConvertStart /\ UNCHANGED <<pptVars, tasks, images, excel, paint, retry, merge>>)
    \/ (wordFileSettled /\ UNCHANGED <<pptVars, tasks, images, excel, paint, retry, merge>>)

SpecWord == InitUpload /\ [][NextWord]_vars

\* C3: when the conversion of one file of a batch fails, every other file
\* of the batch is still converted and offered for download.
C3_FailureIsolatedToItsFile ==
    [][(word.isProcessing /\ ~word'.isProcessing) =>
          \A k \in DOMAIN word.run :
             word.run[k].kind = "good" =>
                \E c \in DOMAIN word'.convertedFiles :
                   word'.convertedFiles[c].src = word.run[k].id]_vars

\* ============================================================ PDF-to-images
\* A selected file: a PDF with 'pages' pages whose page 'failAt' cannot be
\* rendered (0: every page renders), or a file that is not a PDF (pages 0).
ImageFiles ==
    {[id |-> 0, pages |-> p, failAt |-> f] : p \in 1..MaxPages, f \in 0..MaxPages}
ImageKinds == {x \in ImageFiles : x.failAt <= x.pages} \cup {[id |-> 0, pages |-> 0, failAt |-> 0]}
ImageBatches == UNION { [1..n -> ImageKinds] : n \in 0..MaxBatch }

RECURSIVE pdfFilesOf(_)
pdfFilesOf(files) ==
    IF files = <<>> THEN <<>>
    ELSE (IF Head(files).pages > 0 THEN <<Head(files)>> ELSE <<>>) \o pdfFilesOf(Tail(files))

\* setConversionProgress((pageNum / totalPages) * 100)
pageProgress(pageNum, totalPages) == (pageNum * 100) \div totalPages

\* The selection is changed between runs only (a run works on the list it
\* captured when it was started).
imagesFilesSelected ==
    /\ ~images.isConverting
    /\ \E files \in ImageBatches :
          images' = [images EXCEPT !.selectedFiles = pdfFilesOf(numbered(files)),
                                   !.convertedFiles = <<>>,
                                   !.toast = IF Len(pdfFilesOf(files)) # Len(files)
                                             THEN "Invalid files" ELSE @]

imagesRemoveFile ==
    /\ ~images.isConverting
    /\ \E index \in DOMAIN images.selectedFiles :
          images' = [images EXCEPT !.selectedFiles = removeAt(@, index)]

imagesConvertNothing ==
    /\ ~images.isConverting /\ images.selectedFiles = <<>>
    /\ images' = [images EXCEPT !.toast = "No files selected"]

imagesConvertStart ==
    /\ ~images.isConverting /\ images.selectedFiles # <<>>
    /\ images' = [images EXCEPT !.isConverting = TRUE, !.conversionProgress = 0,
                                !.run = images.selectedFiles, !.i = 1, !.pageNum = 1,
                                !.newConvertedFiles = <<>>]

\* After the last file: the results are published and the finally block
\* clears isConverting and the selection.
imagesFinish(st) ==
    IF st.i <= Len(st.run) THEN st
    ELSE [st EXCEPT !.convertedFiles = st.newConvertedFiles,
                    !.toast = IF \E k \in DOMAIN st.newConvertedFiles :
                                    st.newConvertedFiles[k].status = "completed"
                              THEN "Conversion completed!" ELSE "Conversion failed",
                    !.isConverting = FALSE,
                    !.selectedFiles = <<>>]

\* One page of the current file is rendered, or rendering throws and the
\* file gets an error entry; the loop then moves on.
imagesPageSettled ==
    /\ images.isConverting
    /\ LET file == images.run[images.i]
           failed == [src |-> file.id, status |-> "error", pageNumber |-> 0]
           image == [src |-> file.id, status |-> "completed", pageNumber |-> images.pageNum]
       IN  IF file.failAt = images.pageNum
           THEN images' = imagesFinish(
                    [images EXCEPT !.newConvertedFiles = Append(@, failed),
                                   !.i = @ + 1, !.pageNum = 1])
           ELSE images' = imagesFinish(
                    [images EXCEPT !.newConvertedFiles = Append(@, image),
                                   !.conversionProgress = pageProgress(images.pageNum, file.pages),
                                   !.i = IF images.pageNum = file.pages THEN @ + 1 ELSE @,
                                   !.pageNum = IF images.pageNum = file.pages THEN 1 ELSE @ + 1])

NextImages ==
    \/ (imagesFilesSelected /\ UNCHANGED <<pptVars, tasks, word, excel, paint, retry, merge>>)
    \/ (imagesRemoveFile /\ UNCHANGED <<pptVars, tasks, word, excel, paint, retry, merge>>)
    \/ (imagesConvertNothing /\ UNCHANGED <<pptVars, tasks, word, excel, paint, retry, merge>>)
    \/ (imagesConvertStart /\ UNCHANGED <<pptVars, tasks, word, excel, paint, retry, merge>>)
    \/ (imagesPageSettled /\ UNCHANGED <<pptVars, tasks, word, excel, paint, retry, merge>>)

SpecImages == InitUpload /\ [][NextImages]_vars

\* C7: during a conversion run the reported progress stays within 0..100
\* and never decreases, across the files of a batch too.
C7_ProgressNeverDecreases ==
    [][(images.isConverting /\ images'.isConverting) =>
          /\ images'.conversionProgress \in 0..100
          /\ images'.conversionProgress >= images.conversionProgress]_vars


\* ============================================================ exact numbers
\* JavaScript numbers in the geometry code, kept as exact fractions n/d in
\* lowest terms with d > 0.
RECURSIVE GCD(_, _)
GCD(a, b) == IF b = 0 THEN a ELSE GCD(b, a % b)

Abs(a) == IF a < 0 THEN -a ELSE a

Frac(n, d) ==
    LET g == GCD(Abs(n), Abs(d))
        sgn == IF d < 0 THEN -1 ELSE 1
    IN  [n |-> (sgn * n) \div g, d |-> (sgn * d) \div g]

Num(k) == [n |-> k, d |-> 1]

\* Common factors are cancelled before multiplying, to keep the terms small.
Plus(a, b) ==
    LET g == GCD(a.d, b.d)
    IN  Frac(a.n * (b.d \div g) + b.n * (a.d \div g), (a.d \div g) * b.d)
Minus(a, b) == Plus(a, [n |-> -b.n, d |-> b.d])
Times(a, b) ==
    LET g == GCD(Abs(a.n), b.d)
        h == GCD(Abs(b.n), a.d)
    IN  Frac((a.n \div g) * (b.n \div h), (a.d \div h) * (b.d \div g))
Over(a, b) == Times(a, IF b.n < 0 THEN [n |-> -b.d, d |-> -b.n] ELSE [n |-> b.d, d |-> b.n])
Leq(a, b) == Minus(a, b).n <= 0
Less(a, b) == Minus(a, b).n < 0
MinOf(a, b) == IF Leq(a, b) THEN a ELSE b
MaxOf(a, b) == IF Leq(a, b) THEN b ELSE a
AbsOf(a) == [n |-> Abs(a.n), d |-> a.d]

\* ========================================================= page and canvas
contentMargin == 20
defaultSlideWidth == 1280
defaultSlideHeight == 720

\* <p:sldSz cx=".." cy=".."/> of ppt/presentation.xml, in EMU: absent, 4:3,
\* 16:9, 10:7, and sizes with a zero dimension.
SlideSizes ==
    { [present |-> FALSE, cx |-> 0, cy |-> 0],
      [present |-> TRUE, cx |-> 9144000, cy |-> 6858000],
      [present |-> TRUE, cx |-> 12192000, cy |-> 6858000],
      [present |-> TRUE, cx |-> 12700000, cy |-> 8890000],
      [present |-> TRUE, cx |-> 0, cy |-> 6858000],
      [present |-> TRUE, cx |-> 9144000, cy |-> 0] }

\* extractMetadata: the slide size in pixels (EMU / 12700), 720 x 540 when
\* presentation.xml has no <p:sldSz>.
extractSlideSize(sldSz) ==
    IF sldSz.present
    THEN [slideWidth |-> Frac(sldSz.cx, 12700), slideHeight |-> Frac(sldSz.cy, 12700)]
    ELSE [slideWidth |-> Num(720), slideHeight |-> Num(540)]

\* metadata.slideWidth || 1280 and metadata.slideHeight || 720, each on its
\* own.
slideCanvas(metadata) ==
    [slideWidth |-> IF metadata.slideWidth.n # 0 THEN metadata.slideWidth
                    ELSE Num(defaultSlideWidth),
     slideHeight |-> IF metadata.slideHeight.n # 0 THEN metadata.slideHeight
                     ELSE Num(defaultSlideHeight)]

\* ConversionSettings: every pageSize and orientation, dpi 72 and 150.
PageSettings ==
    [pageSize : {"A4", "Letter", "Legal", "A3", "Custom"},
     orientation : {"portrait", "landscape"},
     dpi : {72, 150}]

\* The switch on pageSize and the swap for landscape.
basePdfSize(settings) ==
    LET dpiScale == Frac(settings.dpi, 72)
        pt == CASE settings.pageSize = "A4" -> <<595, 842>>
                [] settings.pageSize = "Letter" -> <<612, 792>>
                [] settings.pageSize = "Legal" -> <<612, 1008>>
                [] settings.pageSize = "A3" -> <<842, 1191>>
                [] OTHER -> <<842, 595>>
        w == Times(Num(pt[1]), dpiScale)
        h == Times(Num(pt[2]), dpiScale)
    IN  IF settings.orientation = "landscape"
        THEN [basePdfWidth |-> h, basePdfHeight |-> w]
        ELSE [basePdfWidth |-> w, basePdfHeight |-> h]

\* The page is the base page, shrunk on one axis to the slide's aspect ratio
\* when the slide then fits with its margins.
pdfSize(settings, slideWidth, slideHeight) ==
    LET base == basePdfSize(settings)
        slideAspectRatio == Over(slideWidth, slideHeight)
        pageAspectRatio == Over(base.basePdfWidth, base.basePdfHeight)
        margins == Num(contentMargin * 2)
    IN  IF Less(pageAspectRatio, slideAspectRatio)
        THEN LET availableWidth == Minus(base.basePdfWidth, margins)
                 scaledHeight == Over(availableWidth, slideAspectRatio)
             IN  [pdfWidth |-> base.basePdfWidth,
                  pdfHeight |-> IF Leq(scaledHeight, Minus(base.basePdfHeight, margins))
                                THEN Plus(scaledHeight, margins)
                                ELSE base.basePdfHeight]
        ELSE LET availableHeight == Minus(base.basePdfHeight, margins)
                 scaledWidth == Times(availableHeight, slideAspectRatio)
             IN  [pdfWidth |-> IF Leq(scaledWidth, Minus(base.basePdfWidth, margins))
                               THEN Plus(scaledWidth, margins)
                               ELSE base.basePdfWidth,
                  pdfHeight |-> base.basePdfHeight]

\* ========================================================= element geometry
\* <a:off x y/> and <a:ext cx cy/> of an element's <a:xfrm>, in EMU. Offsets
\* are signed in the document format; extents here are positive.
Xfrms ==
    [x : {-914400, 0, 4572000, 13716000}, y : {-914400, 0, 4572000, 13716000},
     cx : {914400, 13716000}, cy : {914400, 13716000}]

\* parseInt(..) / 914400 * 96
extractElementPosition(xfrm) ==
    [x |-> Frac(xfrm.x * 96, 914400), y |-> Frac(xfrm.y * 96, 914400),
     width |-> Frac(xfrm.cx * 96, 914400), height |-> Frac(xfrm.cy * 96, 914400)]

\* The geometry with the scaled canvas pinned to the top left corner of the
\* content area.
renderElementToPDFPinned(position, contentWidth, contentHeight, slideWidth, slideHeight, margin) ==
    LET scaleX == Over(contentWidth, slideWidth)
        scaleY == Over(contentHeight, slideHeight)
        scale == MinOf(scaleX, scaleY)
        x == Plus(margin, Times(position.x, scale))
        y == Plus(margin, Times(position.y, scale))
        width == Times(position.width, scale)
        height == Times(position.height, scale)
        maxX == Plus(margin, contentWidth)
        maxY == Plus(margin, contentHeight)
    IN  [scale |-> scale,
         scaledSlideWidth |-> Times(slideWidth, scale),
         scaledSlideHeight |-> Times(slideHeight, scale),
         offsetX |-> Num(0), offsetY |-> Num(0),
         x |-> x, y |-> y, width |-> width, height |-> height,
         skipped |-> \/ Leq(maxX, x) \/ Leq(maxY, y)
                     \/ Leq(Plus(x, width), margin) \/ Leq(Plus(y, height), margin),
         clippedWidth |-> MinOf(width, Minus(maxX, x)),
         clippedHeight |-> MinOf(height, Minus(maxY, y))]

\* The geometry with one factor per axis (stretching the canvas).
renderElementToPDFStretch(position, contentWidth, contentHeight, slideWidth, slideHeight, margin) ==
    LET scaleX == Over(contentWidth, slideWidth)
        scaleY == Over(contentHeight, slideHeight)
        scaledSlideWidth == Times(slideWidth, scaleX)
        scaledSlideHeight == Times(slideHeight, scaleY)
        offsetX == Over(Minus(contentWidth, scaledSlideWidth), Num(2))
        offsetY == Over(Minus(contentHeight, scaledSlideHeight), Num(2))
        x == Plus(Plus(margin, offsetX), Times(position.x, scaleX))
        y == Plus(Plus(margin, offsetY), Times(position.y, scaleY))
        width == Times(position.width, scaleX)
        height == Times(position.height, scaleY)
        maxX == Plus(margin, contentWidth)
        maxY == Plus(margin, contentHeight)
    IN  [scale |-> MinOf(scaleX, scaleY),
         scaledSlideWidth |-> scaledSlideWidth, scaledSlideHeight |-> scaledSlideHeight,
         offsetX |-> offsetX, offsetY |-> offsetY,
         x |-> x, y |-> y, width |-> width, height |-> height,
         skipped |-> \/ Leq(maxX, x) \/ Leq(maxY, y)
                     \/ Leq(Plus(x, width), margin) \/ Leq(Plus(y, height), margin),
         clippedWidth |-> MinOf(width, Minus(maxX, x)),
         clippedHeight |-> MinOf(height, Minus(maxY, y))]

\* renderElementToPDF up to the switch on element.type: the box handed to
\* the painter is (x, y, clippedWidth, clippedHeight) unless skipped.
renderElementToPDF(position, contentWidth, contentHeight, slideWidth, slideHeight, margin) ==
    LET scaleX == Over(contentWidth, slideWidth)
        scaleY == Over(contentHeight, slideHeight)
        scale == MinOf(scaleX, scaleY)
        scaledSlideWidth == Times(slideWidth, scale)
        scaledSlideHeight == Times(slideHeight, scale)
        offsetX == Over(Minus(contentWidth, scaledSlideWidth), Num(2))
        offsetY == Over(Minus(contentHeight, scaledSlideHeight), Num(2))
        x == Plus(Plus(margin, offsetX), Times(position.x, scale))
        y == Plus(Plus(margin, offsetY), Times(position.y, scale))
        width == Times(position.width, scale)
        height == Times(position.height, scale)
        maxX == Plus(margin, contentWidth)
        maxY == Plus(margin, contentHeight)
    IN  [scale |-> scale,
         scaledSlideWidth |-> scaledSlideWidth, scaledSlideHeight |-> scaledSlideHeight,
         offsetX |-> offsetX, offsetY |-> offsetY,
         x |-> x, y |-> y, width |-> width, height |-> height,
         skipped |-> \/ Leq(maxX, x) \/ Leq(maxY, y)
                     \/ Leq(Plus(x, width), margin) \/ Leq(Plus(y, height), margin),
         clippedWidth |-> MinOf(width, Minus(maxX, x)),
         clippedHeight |-> MinOf(height, Minus(maxY, y))]

\* Pixel sizes of a loaded image (both non-zero, or renderImageElement
\* throws 'Invalid image dimensions').
ImageSizes ==
    { [width |-> 800, height |-> 600], [width |-> 100, height |-> 100],
      [width |-> 1600, height |-> 4], [width |-> 4, height |-> 1600] }

\* v > 0.01 for v = n/d >= 0, that is 100 n > d, that is n > floor(d / 100).
exceedsEpsilon(v) == v.n > v.d \div 100

\* The rectangle renderImageElement passes to pdf.addImage.
imageRenderRect(img, x, y, width, height) ==
    LET imgAspectRatio == Frac(img.width, img.height)
        elementAspectRatio == Over(width, height)
        differ == exceedsEpsilon(AbsOf(Minus(imgAspectRatio, elementAspectRatio)))
        wider == Less(elementAspectRatio, imgAspectRatio)
        fitHeight == IF differ /\ wider THEN Over(width, imgAspectRatio) ELSE height
        fitWidth == IF differ /\ ~wider THEN Times(height, imgAspectRatio) ELSE width
        fitX == IF differ /\ ~wider THEN Plus(x, Over(Minus(width, fitWidth), Num(2))) ELSE x
        fitY == IF differ /\ wider THEN Plus(y, Over(Minus(height, fitHeight), Num(2))) ELSE y
        renderWidth == MaxOf(Num(1), MinOf(fitWidth, width))
        renderHeight == MaxOf(Num(1), MinOf(fitHeight, height))
    IN  [differ |-> differ, wider |-> wider,
         renderWidth |-> renderWidth, renderHeight |-> renderHeight,
         renderX |-> MaxOf(x, MinOf(fitX, Minus(Plus(x, width), renderWidth))),
         renderY |-> MaxOf(y, MinOf(fitY, Minus(Plus(y, height), renderHeight)))]

\* ------------------------------------------------- one element laid out
LayoutCalls ==
    { [pc |-> "canvas", sldSz |-> sz, settings |-> st, xfrm |-> xf,
       canvas |-> <<>>, page |-> <<>>, box |-> <<>>, img |-> <<>>, rect |-> <<>>] :
         sz \in SlideSizes, st \in PageSettings, xf \in Xfrms }

quietApp ==
    /\ convertedFiles = <<>>
    /\ selectedFileId = NoFile
    /\ isConverting = FALSE
    /\ conversionProgress = 0
    /\ conversionSettings = defaultSettings
    /\ idleRun
    /\ tasks = NoTasks
    /\ word = WordOff
    /\ images = ImagesOff
    /\ excel = ExcelOff
    /\ retry = RetryOff
    /\ merge = MergeOff

InitLayout == quietApp /\ paint \in LayoutCalls

\* convertPowerPointToPDF reads the canvas size from the metadata.
readCanvas ==
    /\ paint.pc = "canvas"
    /\ paint' = [paint EXCEPT !.pc = "page",
                              !.canvas = <<slideCanvas(extractSlideSize(paint.sldSz))>>]

\* ... and sizes the PDF page.
sizePage ==
    /\ paint.pc = "page"
    /\ paint' = [paint EXCEPT !.pc = "element",
                              !.page = <<pdfSize(paint.settings, paint.canvas[1].slideWidth,
                                                 paint.canvas[1].slideHeight)>>]

\* renderSlideToPDF calls renderElementToPDF with the content area.
placeElement ==
    /\ paint.pc = "element"
    /\ LET margin == Num(contentMargin)
           contentWidth == Minus(paint.page[1].pdfWidth, Num(contentMargin * 2))
           contentHeight == Minus(paint.page[1].pdfHeight, Num(contentMargin * 2))
           box == renderElementToPDF(extractElementPosition(paint.xfrm),
                                     contentWidth, contentHeight,
                                     paint.canvas[1].slideWidth, paint.canvas[1].slideHeight,
                                     margin)
       IN  paint' = [paint EXCEPT !.pc = IF box.skipped THEN "done" ELSE "painter",
                                  !.box = <<box>>]

\* The element is a picture: its image has loaded and is placed in the box.
placeImage ==
    /\ paint.pc = "painter"
    /\ \E img \in ImageSizes :
          LET box == paint.box[1]
          IN  paint' = [paint EXCEPT !.pc = "done", !.img = <<img>>,
                           !.rect = <<imageRenderRect(img, box.x, box.y,
                                                      box.clippedWidth, box.clippedHeight)>>]

NextLayout ==
    \/ (readCanvas /\ UNCHANGED <<pptVars, tasks, otherApps>>)
    \/ (sizePage /\ UNCHANGED <<pptVars, tasks, otherApps>>)
    \/ (placeElement /\ UNCHANGED <<pptVars, tasks, otherApps>>)
    \/ (placeImage /\ UNCHANGED <<pptVars, tasks, otherApps>>)

SpecLayout == InitLayout /\ [][NextLayout]_vars

\* ===================================================== properties: geometry
laidOut == paint.pc \in {"painter", "done"}
handedToPainter == laidOut /\ ~paint.box[1].skipped
contentWidthOf(page) == Minus(page.pdfWidth, Num(contentMargin * 2))
contentHeightOf(page) == Minus(page.pdfHeight, Num(contentMargin * 2))

\* C11: the element's x, y, width and height are the slide coordinates times
\* one factor, min(contentWidth/slideWidth, contentHeight/slideHeight): the
\* scaled canvas and the scaled element keep their aspect ratios, and the
\* element keeps its place relative to the canvas on both axes.
C11_UniformScale ==
    laidOut =>
        LET b == paint.box[1]
            c == paint.canvas[1]
            pos == extractElementPosition(paint.xfrm)
            factor == MinOf(Over(contentWidthOf(paint.page[1]), c.slideWidth),
                            Over(contentHeightOf(paint.page[1]), c.slideHeight))
        IN  /\ Times(b.scaledSlideWidth, c.slideHeight) = Times(b.scaledSlideHeight, c.slideWidth)
            /\ b.width = Times(pos.width, factor)
            /\ b.height = Times(pos.height, factor)
            /\ Minus(b.x, Plus(Num(contentMargin), b.offsetX)) = Times(pos.x, factor)
            /\ Minus(b.y, Plus(Num(contentMargin), b.offsetY)) = Times(pos.y, factor)

\* An element laid out on a page whose content area has another aspect
\* ratio than the slide.
C11_Witness ==
    /\ handedToPainter
    /\ Over(contentWidthOf(paint.page[1]), paint.canvas[1].slideWidth)
         # Over(contentHeightOf(paint.page[1]), paint.canvas[1].slideHeight)

\* C12: when the aspect ratios of image and box differ by more than the
\* epsilon, the rectangle given to addImage lies inside the box, has the
\* image's width:height ratio and is centred on the axis that was shrunk.
C12_ImageContained ==
    (paint.pc = "done" /\ paint.rect # <<>> /\ paint.rect[1].differ) =>
        LET r == paint.rect[1]
            b == paint.box[1]
            img == paint.img[1]
            right == Plus(b.x, b.clippedWidth)
            bottom == Plus(b.y, b.clippedHeight)
        IN  /\ Leq(b.x, r.renderX) /\ Leq(Plus(r.renderX, r.renderWidth), right)
            /\ Leq(b.y, r.renderY) /\ Leq(Plus(r.renderY, r.renderHeight), bottom)
            /\ Times(r.renderWidth, Num(img.height)) = Times(r.renderHeight, Num(img.width))
            /\ IF r.wider
               THEN Minus(r.renderY, b.y) = Minus(bottom, Plus(r.renderY, r.renderHeight))
               ELSE Minus(r.renderX, b.x) = Minus(right, Plus(r.renderX, r.renderWidth))

\* C19: the box handed to a painter keeps the content margin free on every
\* edge of the page.
C19_MarginKeptFree ==
    handedToPainter =>
        LET b == paint.box[1]
            page == paint.page[1]
            margin == Num(contentMargin)
        IN  /\ Leq(margin, b.x)
            /\ Leq(Plus(b.x, b.clippedWidth), Minus(page.pdfWidth, margin))
            /\ Leq(margin, b.y)
            /\ Leq(Plus(b.y, b.clippedHeight), Minus(page.pdfHeight, margin))

\* C20: no canvas dimension used by the layout is zero, and when a dimension
\* of the metadata is zero the canvas is the whole default, 1280 x 720.
C20_DefaultCanvasIsWhole ==
    paint.pc \in {"page", "element", "painter", "done"} =>
        LET metadata == extractSlideSize(paint.sldSz)
            c == paint.canvas[1]
        IN  /\ c.slideWidth.n # 0 /\ c.slideHeight.n # 0
            /\ (metadata.slideWidth.n = 0 \/ metadata.slideHeight.n = 0) =>
                  c = [slideWidth |-> Num(defaultSlideWidth),
                       slideHeight |-> Num(defaultSlideHeight)]

\* C23: the scaled canvas is centred in the content area: the leftover of
\* each axis is split into two equal offsets, none negative, and an element
\* at the canvas origin is drawn at margin + offset.
C23_CanvasCentred ==
    laidOut =>
        LET b == paint.box[1]
            c == paint.canvas[1]
            pos == extractElementPosition(paint.xfrm)
            contentWidth == contentWidthOf(paint.page[1])
            contentHeight == contentHeightOf(paint.page[1])
            factor == MinOf(Over(contentWidth, c.slideWidth), Over(contentHeight, c.slideHeight))
            leftoverX == Minus(contentWidth, Times(c.slideWidth, factor))
            leftoverY == Minus(contentHeight, Times(c.slideHeight, factor))
            left == Minus(Minus(b.x, Times(pos.x, factor)), Num(contentMargin))
            top == Minus(Minus(b.y, Times(pos.y, factor)), Num(contentMargin))
        IN  /\ Leq(Num(0), left) /\ Leq(Num(0), top)
            /\ left = Minus(leftoverX, left)
            /\ top = Minus(leftoverY, top)
            /\ b.offsetX = left /\ b.offsetY = top

\* An element laid out on a page that leaves room beside the scaled canvas.
C23_Witness ==
    /\ handedToPainter
    /\ Less(Num(0), paint.box[1].offsetX)
    /\ paint.box[1].offsetY = Num(0)

\* ================================================================ word wrap
\* The fallback wrap of renderTextElement, entered when pdf.splitTextToSize
\* has thrown. Widths are in units of fontSize / 200.
MaxTextLen == 4         \* characters of the text being wrapped

fontSizeUnits == 200

\* Helvetica advance widths: i 0.222 em, W 0.944 em, @ 1.015 em, space 0.278 em.
glyphWidth(ch) ==
    CASE ch = "i" -> 44 [] ch = "W" -> 189 [] ch = "@" -> 203 [] OTHER -> 56

\* pdf.getTextWidth(str), without kerning.
RECURSIVE getTextWidth(_)
getTextWidth(str) ==
    IF str = <<>> THEN 0 ELSE glyphWidth(Head(str)) + getTextWidth(Tail(str))

\* content.text: extractFormattedText returns it trimmed, and
\* renderTextElement returns before wrapping when it is blank.
Texts ==
    UNION { { t \in [1..n -> {"i", "W", "@", " "}] : t[1] # " " /\ t[n] # " " } : n \in 1..MaxTextLen }

\* availableWidth = Math.max(fontSize, width - 2 * padding), and the routine
\* returns unless availableWidth > fontSize.
AvailableWidths == {fontSizeUnits + 2, 300, 500}

\* text.split(/\s+/) of a trimmed text.
RECURSIVE splitWords(_, _)
splitWords(str, acc) ==
    IF str = <<>> THEN (IF acc = <<>> THEN <<>> ELSE <<acc>>)
    ELSE IF Head(str) = " "
         THEN (IF acc = <<>> THEN <<>> ELSE <<acc>>) \o splitWords(Tail(str), <<>>)
         ELSE splitWords(Tail(str), Append(acc, Head(str)))

\* The inner scan: charCount ends at the first prefix length that is too
\* wide, or at length + 1.
RECURSIVE scanCharCount(_, _, _)
scanCharCount(remainingWord, availableWidth, charCount) ==
    IF charCount > Len(remainingWord) THEN charCount
    ELSE IF getTextWidth(SubSeq(remainingWord, 1, charCount)) > availableWidth THEN charCount
         ELSE scanCharCount(remainingWord, availableWidth, charCount + 1)

\* The prefix taken without the floor of one character.
lineToAddNoFloor(remainingWord, availableWidth) ==
    SubSeq(remainingWord, 1, scanCharCount(remainingWord, availableWidth, 1) - 1)

\* remainingWord.substring(0, Math.max(1, charCount - 1))
lineToAdd(remainingWord, availableWidth) ==
    LET charCount == scanCharCount(remainingWord, availableWidth, 1)
    IN  SubSeq(remainingWord, 1, IF charCount - 1 > 1 THEN charCount - 1 ELSE 1)

WrapCalls ==
    { [pc |-> "split", text |-> t, availableWidth |-> a, words |-> <<>>, w |-> 1,
       lines |-> <<>>, currentLine |-> <<>>, remainingWord |-> <<>>] :
         t \in Texts, a \in AvailableWidths }

InitWrap == quietApp /\ paint \in WrapCalls

\* const words = content.text.split(/\s+/); lines = []; currentLine = ''
wrapSplit ==
    /\ paint.pc = "split"
    /\ paint' = [paint EXCEPT !.pc = "word", !.words = splitWords(paint.text, <<>>)]

\* One turn of 'for (const word of words)', up to the hard-break loop.
wrapWord ==
    /\ paint.pc = "word" /\ paint.w <= Len(paint.words)
    /\ LET thisWord == paint.words[paint.w]
           testLine == IF paint.currentLine # <<>>
                       THEN paint.currentLine \o <<" ">> \o thisWord ELSE thisWord
       IN  IF getTextWidth(testLine) <= paint.availableWidth
           THEN paint' = [paint EXCEPT !.currentLine = testLine, !.w = @ + 1]
           ELSE IF paint.currentLine # <<>>
                THEN paint' = [paint EXCEPT !.lines = Append(@, paint.currentLine),
                                            !.currentLine = thisWord, !.w = @ + 1]
                ELSE paint' = [paint EXCEPT !.pc = "break", !.remainingWord = thisWord]

\* One turn of 'while (remainingWord.length > 0)'.
breakStep ==
    /\ paint.pc = "break" /\ paint.remainingWord # <<>>
    /\ LET line == lineToAdd(paint.remainingWord, paint.availableWidth)
       IN  paint' = [paint EXCEPT !.lines = Append(@, line),
                                  !.remainingWord = SubSeq(@, Len(line) + 1, Len(@))]

\* The word is used up: currentLine = '' and the next word.
breakDone ==
    /\ paint.pc = "break" /\ paint.remainingWord = <<>>
    /\ paint' = [paint EXCEPT !.pc = "word", !.currentLine = <<>>, !.w = @ + 1]

\* if (currentLine) lines.push(currentLine)
wrapEnd ==
    /\ paint.pc = "word" /\ paint.w > Len(paint.words)
    /\ paint' = [paint EXCEPT !.pc = "done",
                              !.lines = IF paint.currentLine # <<>>
                                        THEN Append(@, paint.currentLine) ELSE @]

NextWrap ==
    \/ (wrapSplit /\ UNCHANGED <<pptVars, tasks, otherApps>>)
    \/ (wrapWord /\ UNCHANGED <<pptVars, tasks, otherApps>>)
    \/ (breakStep /\ UNCHANGED <<pptVars, tasks, otherApps>>)
    \/ (breakDone /\ UNCHANGED <<pptVars, tasks, otherApps>>)
    \/ (wrapEnd /\ UNCHANGED <<pptVars, tasks, otherApps>>)

\* The loop is synchronous code: once entered it runs on.
SpecWrap == InitWrap /\ [][NextWrap]_vars /\ WF_vars(NextWrap)

\* C15: every line the wrap emits is no wider than availableWidth or is a
\* single character, wherever its words stood in the text.
C15_NoLineTooWide ==
    paint.pc \in {"word", "break", "done"} =>
        \A i \in DOMAIN paint.lines :
            \/ getTextWidth(paint.lines[i]) <= paint.availableWidth
            \/ Len(paint.lines[i]) = 1

singleWideWord ==
    /\ Len(paint.words) = 1
    /\ getTextWidth(paint.words[1]) > paint.availableWidth

\* C16 as stated: the wrap ends with at least one line, and with more than
\* one line when the text is a single word wider than the box.
C16_WideWordOnSeveralLines ==
    paint.pc = "done" =>
        /\ Len(paint.lines) >= 1
        /\ singleWideWord => Len(paint.lines) > 1

\* C16, amended: the wrap terminates with at least one line, every turn of
\* the hard-break loop removes at least one character of the remaining word,
\* and a single word of two or more characters wider than the box ends up
\* on more than one line.
C16_WrapTerminates ==
    /\ (paint.pc = "split") ~> (paint.pc = "done")
    /\ [][(paint.pc = "break" /\ paint'.pc = "break") =>
             Len(paint'.remainingWord) < Len(paint.remainingWord)]_vars
    /\ [](paint.pc = "done" =>
             /\ Len(paint.lines) >= 1
             /\ (singleWideWord /\ Len(paint.words[1]) >= 2) => Len(paint.lines) > 1)

\* A single word wider than the box, broken over three lines.
C16_Witness ==
    /\ paint.pc = "done"
    /\ singleWideWord
    /\ Len(paint.lines) = 3

\* ============================================================ text lines
\* The placement of the wrapped lines in renderTextElement.
MaxLines == 4           \* wrapped lines of one text element


\* const lineHeight = fontSize * 1.4
lineHeightOf(fontSize) == Frac(fontSize * 14, 10)

\* let startY = ... by style.verticalAlign
startYOf(verticalAlign, y, height, lineHeight, lineCount) ==
    LET totalTextHeight == Times(Num(lineCount), lineHeight)
    IN  IF verticalAlign = "middle"
        THEN Plus(Plus(y, Over(Minus(height, totalTextHeight), Num(2))), lineHeight)
        ELSE IF verticalAlign = "bottom"
             THEN Plus(Minus(Plus(y, height), totalTextHeight), lineHeight)
             ELSE Plus(y, lineHeight)

\* if (lineY > y + height - (lineHeight * 0.5)) break
lineOverflows(lineY, y, height, lineHeight) ==
    Less(Minus(Plus(y, height), Over(lineHeight, Num(2))), lineY)

LineCalls ==
    { [pc |-> "start", verticalAlign |-> va, y |-> Num(y), height |-> Num(h),
       fontSize |-> fs, lineCount |-> n, startY |-> Num(0), i |-> 0, drawn |-> <<>>] :
         va \in {"top", "middle", "bottom"}, y \in {20, 100}, h \in {10, 30, 60},
         fs \in {10, 20},
         n \in 1..MaxLines }

InitLines == quietApp /\ paint \in LineCalls

lineStart ==
    /\ paint.pc = "start"
    /\ paint' = [paint EXCEPT !.pc = "line",
                     !.startY = startYOf(paint.verticalAlign, paint.y, paint.height,
                                         lineHeightOf(paint.fontSize), paint.lineCount)]

lineYOf(p) == Plus(p.startY, Times(Num(p.i), lineHeightOf(p.fontSize)))

\* One turn of the render loop: break, or pdf.text(lines[i], lineX, lineY).
lineDraw ==
    /\ paint.pc = "line" /\ paint.i < paint.lineCount
    /\ IF lineOverflows(lineYOf(paint), paint.y, paint.height, lineHeightOf(paint.fontSize))
       THEN paint' = [paint EXCEPT !.pc = "done"]
       ELSE paint' = [paint EXCEPT !.drawn = Append(@, lineYOf(paint)), !.i = @ + 1]

lineEnd ==
    /\ paint.pc = "line" /\ paint.i = paint.lineCount
    /\ paint' = [paint EXCEPT !.pc = "done"]

NextLines ==
    \/ (lineStart /\ UNCHANGED <<pptVars, tasks, otherApps>>)
    \/ (lineDraw /\ UNCHANGED <<pptVars, tasks, otherApps>>)
    \/ (lineEnd /\ UNCHANGED <<pptVars, tasks, otherApps>>)

SpecLines == InitLines /\ [][NextLines]_vars

freshGState == [saved |-> <<>>, opacity |-> 100, dash |-> "solid", unmatched |-> 0]

saveGraphicsState(g) == [g EXCEPT !.saved = Append(@, g.opacity)]

setGState(g, opacity) == [g EXCEPT !.opacity = opacity]

restoreGraphicsState(g) ==
    IF g.saved = <<>> THEN [g EXCEPT !.unmatched = @ + 1]
    ELSE [g EXCEPT !.opacity = g.saved[Len(g.saved)],
                   !.saved = SubSeq(@, 1, Len(@) - 1)]

\* ElementStyle as the painter reads it: backgroundColor absent, '#rrggbb'
\* or shorter than six digits; opacity absent (0), 0.5 or 1, in percent;
\* the border absent, solid or dashed; boxShadow set or not.
ShapeStyles ==
    [backgroundColor : {"none", "valid", "short"}, opacity : {0, 50, 100},
     border : {"none", "solid", "dashed"}, boxShadow : BOOLEAN]

\* style.opacity && style.opacity < 1
opacityUsed(style) == style.opacity # 0 /\ style.opacity < 100

ShapeCalls ==
    { [pc |-> "fill", style |-> st, g |-> freshGState, before |-> freshGState] :
         st \in ShapeStyles }

InitShape == quietApp /\ paint \in ShapeCalls

\* The fill colour, and the opacity scope opened only inside it.
shapeFill ==
    /\ paint.pc = "fill"
    /\ paint' = [paint EXCEPT
          !.pc = "border",
          !.g = IF paint.style.backgroundColor = "valid" /\ opacityUsed(paint.style)
                THEN setGState(saveGraphicsState(@), paint.style.opacity)
                ELSE @]

\* The border colour, width and dash pattern.
shapeBorder ==
    /\ paint.pc = "border"
    /\ paint' = [paint EXCEPT
          !.pc = "draw",
          !.g = IF paint.style.border = "dashed" THEN [@ EXCEPT !.dash = "dashed"] ELSE @]

\* try { switch (shapeType) ...: the draw calls either throw or get to the
\* shadow.
shapeDraw ==
    /\ paint.pc = "draw"
    /\ \E throws \in BOOLEAN :
          paint' = [paint EXCEPT !.pc = IF throws THEN "catch"
                                        ELSE IF paint.style.boxShadow THEN "shadow"
                                        ELSE "finally"]

\* if (style.boxShadow): save, opacity 0.3, rect, restore; a throwing rect
\* leaves for the catch before the restore.
shapeShadow ==
    /\ paint.pc = "shadow"
    /\ \E throws \in BOOLEAN :
          LET scoped == setGState(saveGraphicsState(paint.g), 30)
          IN  paint' = [paint EXCEPT !.pc = IF throws THEN "catch" ELSE "finally",
                                     !.g = IF throws THEN scoped
                                           ELSE restoreGraphicsState(scoped)]

\* catch: the plain rectangle; whether it throws or not, finally runs next.
shapeCatch ==
    /\ paint.pc = "catch"
    /\ paint' = [paint EXCEPT !.pc = "finally"]

\* finally: the dash pattern is reset, and the state restored when
\* style.opacity is below 1.
shapeFinally ==
    /\ paint.pc = "finally"
    /\ paint' = [paint EXCEPT
          !.pc = "done",
          !.g = LET reset == [@ EXCEPT !.dash = "solid"]
                IN  IF opacityUsed(paint.style) THEN restoreGraphicsState(reset) ELSE reset]

NextShape ==
    \/ (shapeFill /\ UNCHANGED <<pptVars, tasks, otherApps>>)
    \/ (shapeBorder /\ UNCHANGED <<pptVars, tasks, otherApps>>)
    \/ (shapeDraw /\ UNCHANGED <<pptVars, tasks, otherApps>>)
    \/ (shapeShadow /\ UNCHANGED <<pptVars, tasks, otherApps>>)
    \/ (shapeCatch /\ UNCHANGED <<pptVars, tasks, otherApps>>)
    \/ (shapeFinally /\ UNCHANGED <<pptVars, tasks, otherApps>>)

SpecShape == InitShape /\ [][NextShape]_vars

rgb(r, g, b) == [r |-> r, g |-> g, b |-> b]

\* parseColor: '#rrggbb', 'rgb(r, g, b)', the named colours, black otherwise.
parseColor(colorStr) ==
    CASE colorStr = "" -> rgb(0, 0, 0)
      [] colorStr = "#000000" -> rgb(0, 0, 0)
      [] colorStr = "#ff0000" -> rgb(255, 0, 0)
      [] colorStr = "rgb(0, 0, 0)" -> rgb(0, 0, 0)
      [] colorStr = "rgb(255, 0, 0)" -> rgb(255, 0, 0)
      [] colorStr = "rgb(0, 0, 255)" -> rgb(0, 0, 255)
      [] colorStr = "black" -> rgb(0, 0, 0)
      [] colorStr = "blue" -> rgb(0, 0, 255)
      [] OTHER -> rgb(0, 0, 0)

\* The value getComputedStyle(element).color serialises a colour to.
computedColor(colorStr) ==
    CASE colorStr \in {"#000000", "black", "rgb(0, 0, 0)"} -> "rgb(0, 0, 0)"
      [] colorStr \in {"#ff0000", "rgb(255, 0, 0)"} -> "rgb(255, 0, 0)"
      [] colorStr \in {"blue", "rgb(0, 0, 255)"} -> "rgb(0, 0, 255)"

\* a || b for strings
orElse(a, b) == IF a # "" THEN a ELSE b

\* getTextStyle(element).color. The elements come from DOMParser: whether
\* getComputedStyle resolves the cascade for them (cascaded) or gives ''
\* depends on the browser.
getTextStyle(styleColor, parentComputed, cascaded) ==
    LET computed == IF ~cascaded THEN ""
                    ELSE IF styleColor # "" THEN computedColor(styleColor)
                    ELSE parentComputed
    IN  [color |-> parseColor(orElse(computed, orElse(styleColor, "black"))),
         computed |-> computed]

\* processNode: color: currentStyle.color.r !== 0 || .g !== 0 || .b !== 0
\*                     ? currentStyle.color : inheritedStyle.color
effectiveColor(currentColor, inheritedColor) ==
    IF currentColor.r # 0 \/ currentColor.g # 0 \/ currentColor.b # 0
    THEN currentColor ELSE inheritedColor

\* One <p> with two <span> children, each with or without a style colour.
\* The <p> is processed with inheritedStyle = null.
NodeCalls ==
    { [pc |-> "node", parent |-> pcol, children |-> <<c1, c2>>, cascaded |-> cas,
       parentStyle |-> rgb(0, 0, 0), parentComputed |-> "", i |-> 1, effective |-> <<>>] :
         pcol \in {"", "#ff0000", "blue"},
         c1 \in {"", "#000000", "#ff0000", "rgb(0, 0, 255)"},
         c2 \in {"", "#000000", "blue"},
         cas \in BOOLEAN }

\* One text box of a slide: the colour of its first-level text style (the
\* parent of its runs) and the <a:srgbClr val> of each of its two runs.
RunCalls ==
    { [pc |-> "runs", parent |-> pcol, children |-> <<r1, r2>>, i |-> 1,
       style |-> [color |-> "#000000"]] :
         pcol \in {"#000000", "#0000FF"},
         r1 \in {"", "000000", "FF0000"},
         r2 \in {"", "000000", "0000FF"} }

InitStyle == quietApp /\ paint \in (NodeCalls \cup RunCalls)

\* processNode(<p>, indent, null): effectiveStyle = currentStyle.
processParent ==
    /\ paint.pc = "node"
    /\ LET st == getTextStyle(paint.parent, "rgb(0, 0, 0)", paint.cascaded)
       IN  paint' = [paint EXCEPT !.pc = "child", !.parentStyle = st.color,
                                  !.parentComputed = st.computed]

\* processNode(child, indent, effectiveStyle) for the next child of the <p>.
processChild ==
    /\ paint.pc = "child" /\ paint.i <= Len(paint.children)
    /\ LET st == getTextStyle(paint.children[paint.i], paint.parentComputed, paint.cascaded)
       IN  paint' = [paint EXCEPT
              !.i = @ + 1,
              !.effective = Append(@, effectiveColor(st.color, paint.parentStyle))]

\* extractFormattedText: the next run; its colour, when it has one, becomes
\* the colour of the one style of the text box.
extractRun ==
    /\ paint.pc = "runs" /\ paint.i <= Len(paint.children)
    /\ LET colorMatch == paint.children[paint.i]
       IN  paint' = [paint EXCEPT
              !.i = @ + 1,
              !.style = IF colorMatch # "" THEN [color |-> "#" \o colorMatch] ELSE @]

styleEnd ==
    /\ paint.pc \in {"child", "runs"} /\ paint.i > Len(paint.children)
    /\ paint' = [paint EXCEPT !.pc = IF paint.pc = "child" THEN "styled" ELSE "extracted"]

NextStyle ==
    \/ (processParent /\ UNCHANGED <<pptVars, tasks, otherApps>>)
    \/ (processChild /\ UNCHANGED <<pptVars, tasks, otherApps>>)
    \/ (extractRun /\ UNCHANGED <<pptVars, tasks, otherApps>>)
    \/ (styleEnd /\ UNCHANGED <<pptVars, tasks, otherApps>>)

SpecStyle == InitStyle /\ [][NextStyle]_vars

\* C21: a child with an explicit colour is drawn in its own colour whatever
\* the parent's, a child without one in the parent's resolved colour; the
\* same for the runs of a text box, all painted in the style of the box.
C21_ColourResolved ==
    /\ paint.pc = "styled" =>
         \A k \in DOMAIN paint.children :
            paint.effective[k] = IF paint.children[k] # ""
                                 THEN parseColor(paint.children[k])
                                 ELSE paint.parentStyle
    /\ paint.pc = "extracted" =>
         \A k \in DOMAIN paint.children :
            paint.style.color = IF paint.children[k] # ""
                                THEN "#" \o paint.children[k]
                                ELSE paint.parent

\* ====================================================== renderTableElement
MaxRows == 3            \* rows of a table
MaxCells == 3           \* cells of a row

\* Sequences of at most n cell counts: the <a:tc> found in each <a:tr> by
\* extractTableData, which keeps the rows as ragged as the document has them.
RECURSIVE RowsUpTo(_)
RowsUpTo(n) ==
    IF n = 0 THEN {<<>>}
    ELSE LET shorter == RowsUpTo(n - 1)
         IN  shorter \cup {Append(r, c) : r \in {q \in shorter : Len(q) = n - 1},
                                           c \in 0..MaxCells}

\* One call: the table's rectangle after scaling and its rows.
TableCalls ==
    { [pc |-> "table", x |-> Num(20), width |-> Num(w), rows |-> rows,
       rowIndex |-> 0, colIndex |-> 0, colWidth |-> Num(0), drawn |-> <<>>] :
         w \in {100, 300}, rows \in RowsUpTo(MaxRows) }

InitTable == quietApp /\ paint \in TableCalls

\* if (!content.rows || content.rows.length === 0) return;
\* const colWidth = width / (content.rows[0]?.cells.length || 1)
tableStart ==
    /\ paint.pc = "table"
    /\ paint' = IF Len(paint.rows) = 0 THEN [paint EXCEPT !.pc = "done"]
                ELSE [paint EXCEPT
                        !.pc = "cell",
                        !.colWidth = Over(paint.width,
                                          Num(IF paint.rows[1] # 0 THEN paint.rows[1] ELSE 1))]

\* The inner loop runs to row.cells.length and draws
\* pdf.rect(x + colIndex * colWidth, rowY, colWidth, rowHeight, 'D').
tableCell ==
    /\ paint.pc = "cell" /\ paint.rowIndex < Len(paint.rows)
    /\ paint.colIndex < paint.rows[paint.rowIndex + 1]
    /\ paint' = [paint EXCEPT
          !.colIndex = @ + 1,
          !.drawn = Append(@, [row |-> paint.rowIndex, col |-> paint.colIndex,
                               cellX |-> Plus(paint.x, Times(Num(paint.colIndex),
                                                             paint.colWidth))])]

tableNextRow ==
    /\ paint.pc = "cell" /\ paint.rowIndex < Len(paint.rows)
    /\ paint.colIndex = paint.rows[paint.rowIndex + 1]
    /\ paint' = [paint EXCEPT !.rowIndex = @ + 1, !.colIndex = 0]

tableEnd ==
    /\ paint.pc = "cell" /\ paint.rowIndex = Len(paint.rows)
    /\ paint' = [paint EXCEPT !.pc = "done"]

NextTable ==
    \/ (tableStart /\ UNCHANGED <<pptVars, tasks, otherApps>>)
    \/ (tableCell /\ UNCHANGED <<pptVars, tasks, otherApps>>)
    \/ (tableNextRow /\ UNCHANGED <<pptVars, tasks, otherApps>>)
    \/ (tableEnd /\ UNCHANGED <<pptVars, tasks, otherApps>>)

SpecTable == InitTable /\ [][NextTable]_vars

\* C22: the column width is width / cells of the first row, no cell is
\* drawn at a column index at or beyond the first row's cell count, and
\* every drawn cell lies within [x, x + width].
C22_CellsInsideTable ==
    paint.pc \in {"cell", "done"} /\ Len(paint.rows) > 0 =>
        /\ paint.rows[1] > 0 => Times(paint.colWidth, Num(paint.rows[1])) = paint.width
        /\ \A k \in DOMAIN paint.drawn :
              /\ paint.drawn[k].col < paint.rows[1]
              /\ Leq(paint.x, paint.drawn[k].cellX)
              /\ Leq(Plus(paint.drawn[k].cellX, paint.colWidth),
                     Plus(paint.x, paint.width))

\* ================================================================= MergePDF
MaxMergeFiles == 3      \* files in the MergePDF selection

\* A dropped file: a PDF pdf-lib can load ("pdf"), one it cannot
\* ("corrupt"), or a file of another type.
MergeKinds == {"pdf", "corrupt", "other"}

\* files.filter(file => file.type === "application/pdf")
RECURSIVE mergeablePdfs(_)
mergeablePdfs(files) ==
    IF files = <<>> THEN <<>>
    ELSE (IF Head(files) # "other" THEN <<Head(files)>> ELSE <<>>) \o mergeablePdfs(Tail(files))

\* merge.mergedPdfUrl is <<>> for null, or <<the files the blob was built
\* from>>; merge.lastMerge is how the latest handleMerge that ran ended.
InitMerge ==
    /\ quietApp
    /\ paint = PaintOff

\* handleFilesSelected: setSelectedFiles(prev => [...prev, ...pdfFiles])
mergeFilesSelected ==
    /\ \E n \in 1..2 : \E files \in [1..n -> MergeKinds] :
          /\ Len(merge.selectedFiles) + Len(mergeablePdfs(files)) <= MaxMergeFiles
          /\ merge' = [merge EXCEPT !.selectedFiles = @ \o mergeablePdfs(files),
                                    !.toast = IF Len(mergeablePdfs(files)) # Len(files)
                                              THEN "Invalid files" ELSE @]

\* handleRemoveFile
mergeRemoveFile ==
    /\ \E index \in DOMAIN merge.selectedFiles :
          merge' = [merge EXCEPT !.selectedFiles = removeAt(@, index)]

\* handleMerge with fewer than two files (the button is not rendered then;
\* the guard of the handler is what is modelled).
mergeTooFew ==
    /\ ~merge.isProcessing /\ Len(merge.selectedFiles) < 2
    /\ merge' = [merge EXCEPT !.toast = "Need more files"]

\* handleMerge up to its first await; the button is disabled while
\* isProcessing.
mergeStart ==
    /\ ~merge.isProcessing /\ Len(merge.selectedFiles) >= 2
    /\ merge' = [merge EXCEPT !.isProcessing = TRUE, !.run = merge.selectedFiles]

\* The rest of handleMerge: PDFDocument.load throws on a file it cannot
\* read, which ends in the catch; otherwise the blob URL is stored. The
\* finally block clears isProcessing.
mergeSettled ==
    /\ merge.isProcessing
    /\ merge' = IF \E i \in DOMAIN merge.run : merge.run[i] = "corrupt"
                THEN [merge EXCEPT !.isProcessing = FALSE, !.toast = "Merge failed",
                                   !.lastMerge = "failed"]
                ELSE [merge EXCEPT !.isProcessing = FALSE, !.toast = "Success!",
                                   !.lastMerge = "ok", !.mergedPdfUrl = <<merge.run>>]

NextMerge ==
    \/ (mergeFilesSelected /\ UNCHANGED <<pptVars, tasks, word, images, excel, paint, retry>>)
    \/ (mergeRemoveFile /\ UNCHANGED <<pptVars, tasks, word, images, excel, paint, retry>>)
    \/ (mergeTooFew /\ UNCHANGED <<pptVars, tasks, word, images, excel, paint, retry>>)
    \/ (mergeStart /\ UNCHANGED <<pptVars, tasks, word, images, excel, paint, retry>>)
    \/ (mergeSettled /\ UNCHANGED <<pptVars, tasks, word, images, excel, paint, retry>>)

SpecMerge == InitMerge /\ [][NextMerge]_vars

\* C26: a merged download is offered only for the latest merge attempt,
\* which succeeded, and for the files selected now.
C26_DownloadIsLatestMerge ==
    merge.mergedPdfUrl # <<>> =>
        /\ merge.lastMerge = "ok"
        /\ merge.mergedPdfUrl[1] = merge.selectedFiles

\* =============================================================== ExcelToPDF
\* A dropped file: a workbook that converts ("good"), one whose conversion
\* throws ("bad"), or a file that is not .xlsx/.xls ("other").
ExcelKinds == {"good", "bad", "other"}
MaxExcelFiles == 3      \* files added to the ExcelToPDF list in one session

excelFile(id, kind) ==
    [id |-> id, kind |-> kind, status |-> "pending", pdfBlob |-> FALSE, error |-> ""]

\* validFiles.map(file => ({id, ..., status: 'pending', progress: 0}))
RECURSIVE newExcelFiles(_, _)
newExcelFiles(kinds, id) ==
    IF kinds = <<>> THEN <<>>
    ELSE IF Head(kinds) = "other" THEN newExcelFiles(Tail(kinds), id)
    ELSE <<excelFile(id, Head(kinds))>> \o newExcelFiles(Tail(kinds), id + 1)

\* files.filter(f => f.status === 'pending'), as ids
RECURSIVE pendingFiles(_)
pendingFiles(files) ==
    IF files = <<>> THEN <<>>
    ELSE (IF Head(files).status = "pending" THEN <<Head(files)>> ELSE <<>>)
         \o pendingFiles(Tail(files))

\* The loop that gives up after the first failing file.
nextFileStopOnError(i, n, failed) == IF failed THEN n + 1 ELSE i + 1

\* for (const file of pendingFiles) { try {...} catch {...} }: the catch is
\* inside the loop, which goes on with the next file either way.
nextFile(i, n, failed) == i + 1

\* handleFileSelect, from the file input or a drop (the drop zone stays
\* active while a run is in progress).
excelFileSelect ==
    /\ \E n \in 1..2 : \E kinds \in [1..n -> ExcelKinds] :
          LET new == newExcelFiles(kinds, excel.nextId)
          IN  /\ excel.nextId + Len(new) <= MaxExcelFiles + 1
              /\ new # <<>>
              /\ excel' = [excel EXCEPT !.files = @ \o new, !.nextId = @ + Len(new)]

\* removeFile; its button is disabled for the file being processed.
excelRemoveFile ==
    /\ \E k \in DOMAIN excel.files :
          /\ excel.files[k].status # "processing"
          /\ excel' = [excel EXCEPT !.files = removeAt(@, k)]

\* clearAll; its button is disabled while isProcessing.
excelClearAll ==
    /\ ~excel.isProcessing /\ excel.files # <<>>
    /\ excel' = [excel EXCEPT !.files = <<>>]

\* processFiles up to its first await (with no pending file it returns at
\* once and changes nothing): the first pending file is 'processing'.
excelProcessStart ==
    /\ ~excel.isProcessing
    /\ LET pending == pendingFiles(excel.files)
       IN  /\ pending # <<>>
           /\ excel' = [excel EXCEPT
                  !.isProcessing = TRUE, !.run = pending, !.i = 1,
                  !.files = mapFile(@, pending[1].id, [status |-> "processing"])]

\* convertExcelToPDF of the current file settles; the result is recorded,
\* then the next file is taken, or processFiles returns.
excelFileSettled ==
    /\ excel.isProcessing
    /\ LET file == excel.run[excel.i]
           failed == file.kind = "bad"
           recorded == IF failed
                       THEN mapFile(excel.files, file.id,
                                    [status |-> "error", error |-> "Conversion failed"])
                       ELSE mapFile(excel.files, file.id,
                                    [status |-> "completed", pdfBlob |-> TRUE])
           next == nextFile(excel.i, Len(excel.run), failed)
       IN  excel' = IF next <= Len(excel.run)
                    THEN [excel EXCEPT
                            !.i = next,
                            !.files = mapFile(recorded, excel.run[next].id,
                                              [status |-> "processing"])]
                    ELSE [excel EXCEPT !.i = next, !.files = recorded,
                                       !.isProcessing = FALSE]

NextExcel ==
    \/ (excelFileSelect /\ UNCHANGED <<pptVars, tasks, word, images, paint, retry, merge>>)
    \/ (excelRemoveFile /\ UNCHANGED <<pptVars, tasks, word, images, paint, retry, merge>>)
    \/ (excelClearAll /\ UNCHANGED <<pptVars, tasks, word, images, paint, retry, merge>>)
    \/ (excelProcessStart /\ UNCHANGED <<pptVars, tasks, word, images, paint, retry, merge>>)
    \/ (excelFileSettled /\ UNCHANGED <<pptVars, tasks, word, images, paint, retry, merge>>)

InitExcel == quietApp /\ paint = PaintOff

SpecExcel == InitExcel /\ [][NextExcel]_vars

excelDone(f) ==
    \/ f.status = "completed" /\ f.pdfBlob
    \/ f.status = "error" /\ f.error # ""

\* C27: while processFiles runs, the files of the run that are still listed
\* are done before the current one, 'processing' at it and 'pending' after
\* it; when it has returned, isProcessing is false, no file is 'processing'
\* and every file of the run still listed is done.
C27_FilesProcessedInOrder ==
    \A k \in DOMAIN excel.files :
        LET f == excel.files[k]
        IN  /\ f.status = "processing" =>
                 excel.isProcessing /\ f.id = excel.run[excel.i].id
            /\ \A j \in DOMAIN excel.run :
                  f.id = excel.run[j].id =>
                     IF j < excel.i THEN excelDone(f)
                     ELSE IF j = excel.i THEN f.status = "processing"
                     ELSE f.status = "pending"

\* processFiles has returned from a run of two files of which the first
\* failed and the second was converted.
C27_Witness ==
    /\ ~excel.isProcessing /\ Len(excel.run) = 2 /\ excel.i = 3
    /\ \E k \in DOMAIN excel.files :
          excel.files[k].id = excel.run[1].id /\ excel.files[k].status = "error"
    /\ \E k \in DOMAIN excel.files :
          excel.files[k].id = excel.run[2].id /\ excel.files[k].status = "completed"

\* ================================================ SplitPDF parsePageRanges
MaxTokens == 2          \* comma-separated tokens of the page range input

Digits == {"0", "1", "2", "3", "4", "5", "6", "7", "8", "9"}
digitValue(c) ==
    CASE c = "0" -> 0 [] c = "1" -> 1 [] c = "2" -> 2 [] c = "3" -> 3 [] c = "4" -> 4
      [] c = "5" -> 5 [] c = "6" -> 6 [] c = "7" -> 7 [] c = "8" -> 8 [] c = "9" -> 9

\* The tokens between the commas, as their characters.
PageTokens ==
    { <<"2">>, <<"0">>, <<"9">>, <<"x">>, <<>>, <<" ", "2", " ">>, <<"2", "x">>,
      <<"1", "-", "3">>, <<"3", "-", "1">>, <<"2", "-", "2">>, <<"1", "-", "9">>,
      <<"-", "2">>, <<"2", " ", "-", " ", "3">>, <<"1", "-", "2", "-", "3">> }

\* String.prototype.trim
RECURSIVE trimStart(_)
trimStart(str) == IF str # <<>> /\ Head(str) = " " THEN trimStart(Tail(str)) ELSE str

RECURSIVE trimEnd(_)
trimEnd(str) ==
    IF str # <<>> /\ str[Len(str)] = " " THEN trimEnd(SubSeq(str, 1, Len(str) - 1)) ELSE str

trim(str) == trimEnd(trimStart(str))

\* str.split('-')
RECURSIVE splitDash(_, _)
splitDash(str, part) ==
    IF str = <<>> THEN <<part>>
    ELSE IF Head(str) = "-" THEN <<part>> \o splitDash(Tail(str), <<>>)
    ELSE splitDash(Tail(str), Append(part, Head(str)))

\* The value of the longest prefix of digits, -1 when there is none.
RECURSIVE digitsPrefix(_, _)
digitsPrefix(str, value) ==
    IF str = <<>> \/ Head(str) \notin Digits THEN value
    ELSE digitsPrefix(Tail(str), 10 * (IF value < 0 THEN 0 ELSE value) + digitValue(Head(str)))

\* parseInt(str): leading white space skipped, then the digits up to the
\* first other character; NaN is [nan |-> TRUE]. (No token of the model
\* hands it a sign: '-' is what the range branch splits on.)
parseIntOf(str) ==
    LET v == digitsPrefix(trimStart(str), -1)
    IN  IF v < 0 THEN [nan |-> TRUE, value |-> 0] ELSE [nan |-> FALSE, value |-> v]

\* JavaScript truthiness of a number: neither NaN nor 0
truthy(num) == ~num.nan /\ num.value # 0

\* The body of 'for (const range of ranges)': the pages one token pushes.
pagesOfRange(range, totalPages) ==
    IF \E k \in DOMAIN range : range[k] = "-"
    THEN LET parts == splitDash(range, <<>>)
             start == parseIntOf(trim(parts[1]))
             end == parseIntOf(trim(parts[2]))
         IN  IF truthy(start) /\ truthy(end) /\ start.value <= totalPages
                /\ end.value <= totalPages /\ start.value <= end.value
             THEN [i \in 1..(end.value - start.value + 1) |-> start.value + i - 2]
             ELSE <<>>
    ELSE LET page == parseIntOf(range)
         IN  IF truthy(page) /\ page.value <= totalPages THEN <<page.value - 1>> ELSE <<>>

\* [...new Set(pages)]: the first occurrence of each value, in order
RECURSIVE uniqueOf(_, _)
uniqueOf(pages, seen) ==
    IF pages = <<>> THEN <<>>
    ELSE (IF Head(pages) \in seen THEN <<>> ELSE <<Head(pages)>>)
         \o uniqueOf(Tail(pages), seen \cup {Head(pages)})

\* .sort((a, b) => a - b)
sortNumbers(pages) ==
    LET keyed == [i \in DOMAIN pages |-> [k |-> pages[i], v |-> pages[i]]]
        sorted == StableSort(keyed)
    IN  [i \in DOMAIN sorted |-> sorted[i].v]

PageCalls ==
    { [pc |-> "ranges", ranges |-> r, totalPages |-> t, i |-> 1, pages |-> <<>>,
       result |-> <<>>, outcome |-> "none"] :
         r \in UNION { [1..n -> PageTokens] : n \in 1..MaxTokens }, t \in 1..3 }

InitPages == quietApp /\ paint \in PageCalls

\* input.split(',').map(r => r.trim()) and one turn of the loop
parseRange ==
    /\ paint.pc = "ranges" /\ paint.i <= Len(paint.ranges)
    /\ paint' = [paint EXCEPT
          !.i = @ + 1,
          !.pages = @ \o pagesOfRange(trim(paint.ranges[paint.i]), paint.totalPages)]

\* return [...new Set(pages)].sort((a, b) => a - b)
parseReturn ==
    /\ paint.pc = "ranges" /\ paint.i > Len(paint.ranges)
    /\ paint' = [paint EXCEPT !.pc = "parsed",
                              !.result = sortNumbers(uniqueOf(paint.pages, {}))]

\* splitByRange after parsePageRanges
splitByRange ==
    /\ paint.pc = "parsed"
    /\ paint' = [paint EXCEPT
          !.pc = "done",
          !.outcome = IF Len(paint.result) = 0 THEN "Invalid page range specified"
                      ELSE "file"]

NextPages ==
    \/ (parseRange /\ UNCHANGED <<pptVars, tasks, otherApps>>)
    \/ (parseReturn /\ UNCHANGED <<pptVars, tasks, otherApps>>)
    \/ (splitByRange /\ UNCHANGED <<pptVars, tasks, otherApps>>)

SpecPages == InitPages /\ [][NextPages]_vars

\* A token is a page number: digits only, white space around them allowed.
isNumber(str) == str # <<>> /\ \A k \in DOMAIN str : str[k] \in Digits

\* The 0-based pages a well-formed token stands for: 'n' or 'a-b' with
\* 1 <= n, a <= b <= totalPages; every other token stands for none.
pagesMeant(token, totalPages) ==
    LET t == trim(token)
        parts == splitDash(t, <<>>)
    IN  IF isNumber(t)
        THEN {p \in {digitsPrefix(t, -1) - 1} : 0 <= p /\ p < totalPages}
        ELSE IF Len(parts) = 2 /\ isNumber(trim(parts[1])) /\ isNumber(trim(parts[2]))
        THEN LET a == digitsPrefix(trim(parts[1]), -1)
                 b == digitsPrefix(trim(parts[2]), -1)
             IN  IF 1 <= a /\ a <= b /\ b <= totalPages THEN (a - 1)..(b - 1) ELSE {}
        ELSE {}

\* The result is strictly ascending and within 0..totalPages-1.
ascendingInRange ==
    /\ \A k \in DOMAIN paint.result : paint.result[k] \in 0..(paint.totalPages - 1)
    /\ \A k \in 1..(Len(paint.result) - 1) : paint.result[k] < paint.result[k + 1]

\* C29: parsePageRanges returns, strictly ascending and without duplicates,
\* the pages of the well-formed tokens and nothing else, all of them within
\* 0..totalPages-1; splitByRange fails exactly when there is none.
C29_PagesOfWellFormedTokens ==
    /\ paint.pc \in {"parsed", "done"} =>
         /\ ascendingInRange
         /\ {paint.result[k] : k \in DOMAIN paint.result}
               = UNION {pagesMeant(paint.ranges[k], paint.totalPages) : k \in DOMAIN paint.ranges}
    /\ paint.pc = "done" =>
         (paint.outcome = "Invalid page range specified") = (paint.result = <<>>)

\* ============================================================== compressPDF
maxAttempts == 5        \* const maxAttempts = 5
minQuality == 5         \* currentQuality > 5, Math.max(5, ...)
qualityStep == 15       \* currentQuality - 15

\* config.quality: the slider runs from 10 to 95 in steps of 5, and the
\* presets are 20, 50 and 75.
Qualities == {5 * k : k \in 2..19}

\* The quality lowered with no floor.
nextQualityUnbounded(currentQuality) == currentQuality - qualityStep

\* currentQuality = Math.max(5, currentQuality - 15)
nextQuality(currentQuality) ==
    IF currentQuality - qualityStep >= minQuality
    THEN currentQuality - qualityStep ELSE minQuality

\* One call with a target size or without: tooLarge says whether
\* finalBytes.length > targetBytes for the bytes saved last.
CompressCalls ==
    { [pc |-> "loop", useTargetSize |-> u, currentQuality |-> q, attempts |-> 0,
       tooLarge |-> big] :
         u \in BOOLEAN, q \in Qualities, big \in BOOLEAN }

InitCompress == quietApp /\ paint \in CompressCalls

loopGoesOn ==
    /\ paint.useTargetSize
    /\ paint.tooLarge /\ paint.currentQuality > minQuality /\ paint.attempts < maxAttempts

\* One turn of the while loop: the document is loaded again, stripped and
\* saved; the bytes saved fit the target or not, or load or save throws.
compressAttempt ==
    /\ paint.pc = "loop" /\ loopGoesOn
    /\ \E outcome \in {"fits", "tooLarge", "throws"} :
          paint' = [paint EXCEPT
              !.attempts = @ + 1,
              !.currentQuality = nextQuality(@),
              !.tooLarge = IF outcome = "throws" THEN @ ELSE outcome = "tooLarge",
              !.pc = IF outcome = "throws" THEN "thrown" ELSE "loop"]

\* The loop is left (or skipped) and the blob is returned.
compressReturn ==
    /\ paint.pc = "loop" /\ ~loopGoesOn
    /\ paint' = [paint EXCEPT !.pc = "done"]

NextCompress ==
    \/ (compressAttempt /\ UNCHANGED <<pptVars, tasks, otherApps>>)
    \/ (compressReturn /\ UNCHANGED <<pptVars, tasks, otherApps>>)

SpecCompress == InitCompress /\ [][NextCompress]_vars

attemptMade == paint.pc = "loop" /\ paint'.attempts = paint.attempts + 1

\* C30 as stated: at most 5 attempts, the quality never below 5 and lower
\* by 15 after every attempt.
C30_QualityDropsByFifteen ==
    /\ [](paint.pc \in {"loop", "thrown", "done"} =>
             paint.attempts <= maxAttempts /\ paint.currentQuality >= minQuality)
    /\ [][attemptMade => paint'.currentQuality = paint.currentQuality - qualityStep]_vars

\* C30: at most 5 attempts are made and the quality is never below 5; an
\* attempt is made only while the output is larger than the target, the
\* quality above 5 and fewer than 5 attempts made, and it lowers the
\* quality by 15 or, from less than 20, to 5; otherwise the loop is left.
C30_LoopBounded ==
    /\ [](paint.pc \in {"loop", "thrown", "done"} =>
             paint.attempts <= maxAttempts /\ paint.currentQuality >= minQuality)
    /\ [][attemptMade =>
             /\ paint.tooLarge /\ paint.currentQuality > minQuality
             /\ paint.attempts < maxAttempts
             /\ paint'.currentQuality < paint.currentQuality
             /\ paint'.currentQuality =
                   IF paint.currentQuality >= minQuality + qualityStep
                   THEN paint.currentQuality - qualityStep ELSE minQuality]_vars
    /\ [][(paint.pc = "loop" /\ paint'.pc = "done") =>
             \/ ~paint.useTargetSize \/ ~paint.tooLarge
             \/ paint.currentQuality = minQuality \/ paint.attempts = maxAttempts]_vars
    /\ [][(paint.pc = "loop" /\ paint.useTargetSize
           /\ (~paint.tooLarge \/ paint.currentQuality = minQuality
               \/ paint.attempts = maxAttempts)) => paint'.attempts = paint.attempts]_vars

\* The loop has made its fifth attempt from quality 95 and was left with the
\* output still too large.
C30_Witness ==
    /\ paint.pc = "done" /\ paint.useTargetSize
    /\ paint.attempts = maxAttempts /\ paint.tooLarge
    /\ paint.currentQuality = 20

\* ============================================================== busy flags
\* C28: in every tool a busy flag that was set is eventually cleared again.
C28_BusyFlagEventuallyCleared ==
    /\ isConverting ~> ~isConverting
    /\ word.isProcessing ~> ~word.isProcessing
    /\ images.isConverting ~> ~images.isConverting
    /\ excel.isProcessing ~> ~excel.isProcessing
    /\ merge.isProcessing ~> ~merge.isProcessing

====
